------------------------ MODULE MCTransactionSigning ------------------------
(* Small instances of TransactionSigning: bytes that bring the payloads to   *)
(* each side of the limits of a header, and numbers of zero, one and two     *)
(* bytes.                                                                    *)
EXTENDS TransactionSigning

CONSTANTS mine, other

Filled(n, b) == [i \in 1..n |-> b]

Plain == [from |-> mine, to |-> Filled(20, 53), nonce |-> 0, gas |-> 21000, gasPrice |-> 200, maxFee |-> Absent,
          maxPriority |-> Absent, value |-> Absent, data |-> <<>>, chainID |-> 1, accessList |-> Absent,
          blobFee |-> Absent, others |-> FALSE]
Dynamic == [Plain EXCEPT !.gasPrice = Absent, !.maxFee = 300, !.maxPriority = 0, !.accessList = <<>>]

Entry(n) == [address |-> Filled(20, 200), keys |-> Filled(n, Filled(32, 0))]

\* The lists around the data have 30 bytes, and 32 for type 2.
MCTransactions ==
    {[Plain EXCEPT !.data = Filled(n, 130)] : n \in {1, 23, 24, 25, 55, 56, 222, 223, 224, 255, 256}}
      \cup {[Plain EXCEPT !.data = <<b>>] : b \in {0, 127, 128}}
      \cup {[Plain EXCEPT !.chainID = n] : n \in {0, 110, 111, 300}}
      \cup {[Plain EXCEPT !.nonce = n, !.gas = g] : n \in {127, 128, 256}, g \in {0, 128, Absent}}
      \cup {[Plain EXCEPT !.value = n, !.gasPrice = Absent] : n \in {0, 1, 65536}}
      \cup {[t EXCEPT !.to = Absent, !.data = Filled(2, 96)] : t \in {Plain, Dynamic}}
      \cup {[Plain EXCEPT !.gasPrice = p, !.accessList = l, !.blobFee = b, !.others = o] :
              p \in {Absent, 200}, l \in {Absent, <<>>, <<Entry(1)>>}, b \in {Absent, 400}, o \in BOOLEAN}
      \cup {[Plain EXCEPT !.maxPriority = 1]}
      \cup {[Dynamic EXCEPT !.accessList = l, !.nonce = n] :
              l \in {<<>>, <<Entry(0)>>, <<Entry(1)>>, <<Entry(0), Entry(2)>>, <<Entry(7)>>}, n \in {0, 9}}
      \cup {[Dynamic EXCEPT !.data = Filled(n, 1)] : n \in 21..24}
      \cup {[Dynamic EXCEPT !.accessList = Absent], [Dynamic EXCEPT !.others = TRUE], [Dynamic EXCEPT !.blobFee = 400],
            [Dynamic EXCEPT !.maxFee = Absent], [Dynamic EXCEPT !.chainID = 0]}

MCTypedData == {[from |-> mine, hash |-> Filled(32, 7), sameChain |-> b] : b \in BOOLEAN}

\* r and s at the ends of their range, on each side of the half and of a byte.
MCAnswers ==
    [size : {4}, r : {1, 256, 508}, s : {1, 254, 255, 508}, v : {27, 28}, by : {mine, other}]
      \cup [size : {3, 4}, r : {0, 1, 509}, s : {0, 509}, v : {27}, by : {mine}]
      \cup [size : {3}, r : {1}, s : {1}, v : {27}, by : {mine}]
=============================================================================
