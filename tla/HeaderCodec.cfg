CONSTANTS
    ByteBase = 4
    Headers <- MCHeaders
SPECIFICATION Spec
INVARIANTS TypeOK ChunkingIndependent FieldsReadBack AcceptedWithoutSecondCarry RefusedWhenShort
CHECK_DEADLOCK FALSE
