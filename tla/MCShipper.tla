----------------------------- MODULE MCShipper -----------------------------
EXTENDS Shipper
=============================================================================
