------------------------------ MODULE MCReaders ------------------------------
(***************************************************************************)
(* Instances of Readers for TLC: a device of every type, those on a DS2438 *)
(* with and without extra channels; numbers around the driver's -1 and 0;  *)
(* no limits, or an upper one that refuses the largest number.             *)
(***************************************************************************)
EXTENDS Readers

Device(type, roles) == [type |-> type, roles |-> roles]

MCDevices ==
    {Device("TEMP", <<"temp">>), Device("COUNTER", <<"counterA", "counterB">>),
     Device("DS2450", <<"ADA", "ADC">>), Device("SHT11", <<"temp", "humidity">>),
     Device("DS2760", <<"temp", "volt">>), Device("DS1923", <<"temp", "humidity">>),
     Device("DS1921", <<"temp">>), Device("HBUV", <<"temp", "uv">>),
     Device("HBHT", <<"humidity">>), Device("DS2438V", <<"vdd", "vad", "vsens", "temp">>),
     Device("BRAY", <<"temp", "pres">>), Device("HBBARO", <<"pres", "vdd">>),
     Device("MS_TC", <<"current">>), Device("HUMID", <<"temp", "humidity">>),
     Device("HIH", <<"temp", "humidity">>), Device("PRES", <<"temp", "pres">>),
     Device("WINDVANE", <<"vane">>)}

Row(flags) == [flags |-> flags, counter |-> FALSE, rmin |-> 0, rmax |-> 0, roc |-> 0]
MCLimits   == {Row({}), Row({W1_RMAX})}
MCReadings == {-1, 0, 1}
==============================================================================
