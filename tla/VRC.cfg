CONSTANTS
    Payloads <- MCPayloads
    Foreign <- MCForeign
    MaxEffects = 2
    MaxDamage = 2
    MaxKills = 1
SPECIFICATION VRCSpec
INVARIANTS VRCTypeOK ResumesSealed
PROPERTY NewestOrHalted
CHECK_DEADLOCK FALSE
