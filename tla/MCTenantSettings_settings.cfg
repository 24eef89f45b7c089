SPECIFICATION LiveSpec
CONSTANTS
  Req = {r1, r2}
INVARIANTS TypeOK SettingsChained RealmMarked
PROPERTY RealmConverges
