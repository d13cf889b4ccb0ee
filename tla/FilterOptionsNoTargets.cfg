CONSTANTS
    None = None
    Entity = light
    Areas = {kitchen}
    Labels = {private}
    Devices = {hub}
SPECIFICATION Spec
INVARIANTS
    NoTargetsPublishesAll
