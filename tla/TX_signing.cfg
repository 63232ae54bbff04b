CONSTANTS
    mine = mine
    other = other
    Transactions <- MCTransactions
    TypedData <- MCTypedData
    Account = {mine, other}
    Nobody = Nobody
    Absent = Absent
    Order = 509
    WordLength = 2
    Answers <- MCAnswers
SPECIFICATION Spec
INVARIANTS
    SenderRecovers
    SignedAsAsked
    SignaturesLowAndOwn
    GoodAnswersSign
