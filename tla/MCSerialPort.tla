---------------------------- MODULE MCSerialPort ----------------------------
\* Constants of SerialPort that a configuration file cannot write: two Devices
\* on one line and a third on another.
EXTENDS SerialPort, TLC

CONSTANTS a, b, c, ttyUSB0, ttyUSB1

Three == {a, b, c}
Two == {a, b}
TwoLines == {ttyUSB0, ttyUSB1}
LineOfThree == a :> ttyUSB0 @@ b :> ttyUSB0 @@ c :> ttyUSB1
LineOfTwo == a :> ttyUSB0 @@ b :> ttyUSB1
=============================================================================
