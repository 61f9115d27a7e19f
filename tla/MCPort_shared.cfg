\* Cameras of 192.168.1 and 192.168.10.
CONSTANT Address <- SharedDigits
SPECIFICATION Spec
INVARIANTS EachCameraItsSocket
