-------------------------------- MODULE MCParser --------------------------------
EXTENDS Parser

MCModifiers == {{}, {Flatten}, {Inline}}
=============================================================================
