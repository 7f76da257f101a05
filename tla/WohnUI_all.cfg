CONSTANTS
  Adapter = Adapter
  Conns = {lan}
  None = None
  MaxChanges = 2
  ServiceSsids = {5}
  SharedAtFirst = {{}, {Adapter, lan}}
  MaxClicks = 2
  TypedSsids = {0, 6, 32}
  ServiceKeys = {64}
  TypedKeys = {7, 9, 63}
SPECIFICATION Spec
INVARIANTS
    WohnTypeOK
    UiAgrees
    SettingsKept
    SharingReleased
PROPERTIES
    UiSettles
CHECK_DEADLOCK FALSE
