SPECIFICATION EventsSpec
CONSTANTS
  Headings <- MC_Headings
  Doc <- MC_Doc
  IdOf <- MC_IdOf
  KeysOf <- MC_KeysOf
  UsesOf <- MC_UsesOf
  Severities = {"LOG_ERR", "LOG_WARN", "LOG_INFO"}
  Asked = {"PORT", "PORTv2", "VLAN"}
  Names = {"PORT_ADD", "V2_STATE", "PORT_DOWN", "PORT_UP"}
  MaxEvents = 5
  MaxCategories = 2
  Blank = Blank
  LevelOf <- MC_LevelOf
  Upper <- MC_Upper
  Part <- MC_Part
  PyAsked = {"PORT", "PORTv2"}
  Requests <- MC_Requests
  MaxEntries = 2
PROPERTY UnknownIsReported
