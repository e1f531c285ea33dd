----------------------------- MODULE MCDeviceIo -----------------------------
\* Constants of DeviceIo that a configuration file cannot write.
EXTENDS DeviceIo

NoWaiting == {}               \* the script defines no function "waiting"
AnyWaiting == {-1, 0, 1}      \* EXIT, CONTINUE, PROCESSED
=============================================================================
