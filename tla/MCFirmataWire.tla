--------------------------- MODULE MCFirmataWire ----------------------------
(* One message of each shape, with values that need both of their bytes. *)
EXTENDS FirmataWire

MCMessages ==
  {Message(ANALOG_MESSAGE, 1, <<128>>),
   Message(REPORT_DIGITAL, 0, <<1>>),
   Message(SYSTEM_RESET, 0, <<>>),
   Message(START_SYSEX, 0, <<STRING_DATA, 128>>)}

=============================================================================
