---------------------------- MODULE MCCertificates ----------------------------
(* An instance of Certificates for TLC: one ordinary host, one that is not on the whitelist *)
(* and one that is not cached.                                                               *)
EXTENDS Certificates

MCHosts == {"plain", "unlisted", "slashed"}
MCWhitelisted == {"plain", "slashed"}
MCSlashed == {"slashed"}
=============================================================================
