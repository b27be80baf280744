CONSTANTS
  Setting = {locale, advanced}
  Data <- MCData
  Default <- MCDefault
  Writer = {service}
  Service = service
  Absent = Absent
  Empty = Empty
  Torn = Torn
  None = None
  MaxQueue = 2
SPECIFICATION FairConfigSpec
INVARIANTS ConfigInv LastChoiceSaved
PROPERTIES ImplementsRegister UntouchedSettingsKept SavesGoOn
