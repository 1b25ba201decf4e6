CONSTANTS
    Turns = {t1}
    MaxRetries = 2
SPECIFICATION Spec
INVARIANTS TypeOK AnswerRestsOnAudit RepairsSyntaxOnly ReplyIsStored
PROPERTIES OutcomeIsFinal EveryTurnEnds
