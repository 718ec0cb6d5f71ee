-------------------------------- MODULE MCSetup --------------------------------
EXTENDS Setup

\* A word of one letter and a buffer of three bytes: one letter too many fits.
MCWord == <<"W">>
MCChars == {"W", "SPACE", ";", "."}
================================================================================
