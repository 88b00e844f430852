------------------------------ MODULE MCZones ------------------------------
EXTENDS Zones
=============================================================================
