-------------------- MODULE MCSigningCapabilityIssuance ---------------------
EXTENDS SigningCapabilityIssuance

=============================================================================
