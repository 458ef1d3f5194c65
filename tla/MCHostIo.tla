------------------------------ MODULE MCHostIo ------------------------------
\* Commands of two pages: two units of three pages are filled in the middle of one.
EXTENDS HostIo
MCCommands == {"READ_WAIT", "WRITE_WAIT"} \X {2}
=============================================================================
