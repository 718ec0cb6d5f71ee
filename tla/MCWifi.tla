-------------------------------- MODULE MCWifi ---------------------------------
EXTENDS Wifi
================================================================================
