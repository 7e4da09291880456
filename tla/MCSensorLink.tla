---------------------------- MODULE MCSensorLink ----------------------------
\* Get_Energy with three numbers per answer and every kind of sensor.
EXTENDS SensorLink
=============================================================================
