------------------------- MODULE TransactionSigning -------------------------
(***************************************************************************)
(* The HSM connector from a transaction, or typed data, to its signature:  *)
(* the kind of the transaction is told from its fields, its payload is     *)
(* encoded, the backend signs the payload, the answer is checked and       *)
(* normalised, the recovery byte is looked for, and the transaction is     *)
(* encoded again with its signature.  The payload stands for its hash.     *)
(***************************************************************************)
EXTENDS RLP

CONSTANTS
    Transactions,   \* transactions to sign: records of Transaction
    TypedData,      \* typed data to sign: records of Typed
    Account,        \* accounts, each the address of a key
    Nobody,         \* what recovers from a signature over something else
    Absent,         \* a field that is not given
    Order,          \* the order of the curve
    WordLength,     \* the bytes of r, and of s: 32
    Answers         \* what the backend may answer: records of Answer

Bytes == Seq(Byte)
Optional(S) == S \cup {Absent}
AccessList == Seq([address : Bytes, keys : Seq(Bytes)])

\* blobFee is of type 3; others: blob hashes or an authorization list, of the
\* types 3 and 4, are given.
Transaction == [from : Account, to : Optional(Bytes), nonce : Nat, gas : Optional(Nat), gasPrice : Optional(Nat),
                maxFee : Optional(Nat), maxPriority : Optional(Nat), value : Optional(Nat), data : Bytes,
                chainID : Nat, accessList : Optional(AccessList), blobFee : Optional(Nat), others : BOOLEAN]

\* hash: the payload of the typed data; sameChain: its domain is of the chain of the application.
Typed == [from : Account, hash : Bytes, sameChain : BOOLEAN]

\* The backend signs with the key of by; v is the recovery byte of <<r, s>>.
Answer == [size : Nat, r : Nat, s : Nat, v : {27, 28}, by : Account]

ASSUME OrderAssumption == Order \in Nat /\ Order > 2 /\ Order % 2 = 1
ASSUME WordAssumption == WordLength \in Nat /\ Len(ToBinary(Order - 1)) <= WordLength
ASSUME AbsentAssumption == Absent \notin Nat /\ Absent \notin Bytes /\ Absent \notin AccessList
ASSUME NobodyAssumption == Nobody \notin Account
ASSUME InputAssumption == Transactions \subseteq Transaction /\ TypedData \subseteq Typed /\ Answers \subseteq Answer

VARIABLES
    pc,             \* idle, sign, encode, done or error
    request,        \* what is asked for, with its type
    payload,        \* the bytes that are hashed and signed
    answer,         \* the answer of the backend
    signature,      \* the recoverable signature
    output          \* the bytes of the answer to the client

vars == <<pc, request, payload, answer, signature, output>>

Nothing == <<>>

Init ==
    /\ pc = "idle"
    /\ request = Nothing /\ payload = <<>> /\ answer = Nothing /\ signature = Nothing /\ output = <<>>

-----------------------------------------------------------------------------
(* The transaction *)

Given(field) == field # Absent
Or(field, default) == IF Given(field) THEN field ELSE default

\* Mutant: a price of its own makes a transaction legacy, whatever else is given.
PriceMakesLegacy(t) ==
    LET fees == Given(t.maxFee) \/ Given(t.maxPriority) IN
    CASE ~Given(t.gasPrice) /\ fees -> IF Given(t.maxFee) /\ Given(t.maxPriority) /\ Given(t.accessList) THEN "2" ELSE "missing"
      [] OTHER -> "0"

\* Without a price and the fees of type 2, the other fields are not looked at.
IdentifyTxType(t) ==
    LET fees == Given(t.maxFee) \/ Given(t.maxPriority)
        later == Given(t.blobFee) \/ t.others
    IN
    CASE Given(t.gasPrice) /\ (fees \/ later) -> "ambiguous"
      [] Given(t.gasPrice) /\ ~(fees \/ later) -> IF Given(t.accessList) THEN "1" ELSE "0"
      [] ~Given(t.gasPrice) /\ fees ->
           IF ~(Given(t.maxFee) /\ Given(t.maxPriority) /\ Given(t.accessList)) THEN "missing"
           ELSE IF later THEN "3" ELSE "2"
      [] OTHER -> "0"

DefaultGas == 90000

\* The bytes of a number from its hexadecimal digits: 0 has one.
HexBytes(n) == IF n = 0 THEN <<0>> ELSE ToBinary(n)

NonceBytes(n) == IF n = 0 THEN <<>> ELSE HexBytes(n)

ToBytes(t) == Or(t.to, <<>>)

\* An address and a storage key are bytes of their lengths, so the hexadecimal
\* text of one is always decoded again.
AccessListItems(list) ==
    [i \in DOMAIN list |->
        EncodeList(<<EncodeBytes(list[i].address),
                     EncodeList([k \in DOMAIN list[i].keys |-> EncodeBytes(list[i].keys[k])])>>)]

LegacyFields(t) ==
    << EncodeBytes(NonceBytes(t.nonce)), EncodeBigInt(Or(t.gasPrice, 0)), EncodeBytes(HexBytes(Or(t.gas, DefaultGas))),
       EncodeBytes(ToBytes(t)), EncodeBigInt(Or(t.value, 0)), EncodeBytes(t.data) >>

EIP1559Fields(t) ==
    << EncodeBytes(HexBytes(t.chainID)), EncodeBytes(NonceBytes(t.nonce)), EncodeBigInt(t.maxPriority),
       EncodeBigInt(t.maxFee), EncodeBytes(HexBytes(Or(t.gas, DefaultGas))), EncodeBytes(ToBytes(t)),
       EncodeBigInt(Or(t.value, 0)), EncodeBytes(t.data), EncodeList(AccessListItems(t.accessList)) >>

\* Mutant: the payload of a legacy transaction leaves the chain out.
HashWithoutChain(t, type) ==
    IF type = "0" THEN EncodeList(LegacyFields(t)) ELSE <<2>> \o EncodeList(EIP1559Fields(t))

Hash(t, type) ==
    IF type = "0"
    THEN EncodeList(LegacyFields(t) \o <<EncodeBytes(HexBytes(t.chainID)), EncodeBigInt(0), EncodeBigInt(0)>>)
    ELSE <<2>> \o EncodeList(EIP1559Fields(t))

SignTx ==
    /\ pc = "idle"
    /\ \E t \in Transactions : LET type == IdentifyTxType(t) IN
         /\ request' = [type |-> type, from |-> t.from, asked |-> t]
         /\ IF t.chainID >= 1 /\ type \in {"0", "2"}
            THEN pc' = "sign" /\ payload' = Hash(t, type)
            ELSE pc' = "error" /\ UNCHANGED payload
    /\ UNCHANGED <<answer, signature, output>>

SignTypedData ==
    /\ pc = "idle"
    /\ \E t \in TypedData :
         /\ request' = [type |-> "typed", from |-> t.from, asked |-> t]
         /\ IF t.sameChain THEN pc' = "sign" /\ payload' = t.hash ELSE pc' = "error" /\ UNCHANGED payload
    /\ UNCHANGED <<answer, signature, output>>

-----------------------------------------------------------------------------
(* The signature *)

HalfOrder == Order \div 2

\* <<r, Order - s>> is a signature too, with the other recovery byte.
RecoverCompact(v, r, s, bytes) ==
    IF /\ bytes = payload /\ r = answer.r
       /\ \/ s = answer.s /\ v = answer.v
          \/ s = Order - answer.s /\ v = 55 - answer.v
    THEN answer.by ELSE Nobody

BackendSigns ==
    /\ pc = "sign"
    /\ \/ \E a \in Answers : answer' = a /\ pc' = "assemble"
       \/ pc' = "error" /\ UNCHANGED answer
    /\ UNCHANGED <<request, payload, signature, output>>

ValidateBackendSignature(a) == a.size = 2 * WordLength /\ a.r \in 1..(Order - 1) /\ a.s \in 1..(Order - 1)

\* Mutant: half the order is taken for high.
LowBelowHalf(s) == IF s >= HalfOrder THEN Order - s ELSE s

SignatureToLowS(s) == IF s > HalfOrder THEN Order - s ELSE s

\* Mutant: the recovery byte is looked for before the signature is normalised.
RecoverVOfAnswer(s) == {v \in 27..28 : RecoverCompact(v, answer.r, answer.s, payload) = request.from}

\* Mutant: the last recovery byte is not tried.
RecoverVUntilLast(s) == {v \in {27} : RecoverCompact(v, answer.r, s, payload) = request.from}

RecoverV(s) == {v \in 27..28 : RecoverCompact(v, answer.r, s, payload) = request.from}

AssembleRecoverableSignature ==
    /\ pc = "assemble"
    /\ LET low == SignatureToLowS(answer.s) IN
         IF ValidateBackendSignature(answer) /\ RecoverV(low) # {}
         THEN /\ signature' = [v |-> IF 27 \in RecoverV(low) THEN 27 ELSE 28, r |-> answer.r, s |-> low]
              /\ pc' = "encode"
         ELSE pc' = "error" /\ UNCHANGED signature
    /\ UNCHANGED <<request, payload, answer, output>>

-----------------------------------------------------------------------------
(* The answer *)

YParity(v) == v - 27

\* Mutant: the chain is added once.
EthereumVOnce(t, v) == YParity(v) + 35 + t.chainID

EthereumV(t, v) == YParity(v) + 35 + 2 * t.chainID

FieldsWithSignature(t, type, v, r, s) ==
    LET rs == <<EncodeBigInt(r), EncodeBigInt(s)>> IN
    IF type = "0" THEN LegacyFields(t) \o <<EncodeBigInt(EthereumV(t, v))>> \o rs
    ELSE EIP1559Fields(t) \o <<EncodeBigInt(YParity(v))>> \o rs

\* A slice, and with it what is encoded to one, has a length of eight bytes at most.
Fits(items) == Len(ToBinary(Len(FlattenSeq(items)))) <= 8

ASSUME SizeAssumption ==
    \A t \in Transactions, a \in Answers, v \in {27, 28} : \A s \in {a.s, Order - a.s} :
        t.chainID >= 1 /\ IdentifyTxType(t) \in {"0", "2"} /\ s \in 1..(Order - 1) =>
            Fits(FieldsWithSignature(t, IdentifyTxType(t), v, a.r, s))

RLPEncode ==
    /\ pc = "encode" /\ request.type \in {"0", "2"}
    /\ LET list == EncodeList(FieldsWithSignature(request.asked, request.type, signature.v, signature.r, signature.s)) IN
         output' = IF request.type = "0" THEN list ELSE <<2>> \o list
    /\ pc' = "done"
    /\ UNCHANGED <<request, payload, answer, signature>>

\* Mutant: a number shorter than a word is put at the start of it.
WordFromStart(n) == ToBinary(n) \o [i \in 1..(WordLength - Len(ToBinary(n))) |-> 0]

Word(n) == [i \in 1..(WordLength - Len(ToBinary(n))) |-> 0] \o ToBinary(n)

ToHex ==
    /\ pc = "encode" /\ request.type = "typed"
    /\ output' = Word(signature.r) \o Word(signature.s) \o <<signature.v>>
    /\ pc' = "done"
    /\ UNCHANGED <<request, payload, answer, signature>>

\* The answer is sent, and the next request is taken.
Reply ==
    /\ pc \in {"done", "error"}
    /\ pc' = "idle"
    /\ request' = Nothing /\ payload' = <<>> /\ answer' = Nothing /\ signature' = Nothing /\ output' = <<>>

Next ==
    \/ SignTx \/ SignTypedData \/ BackendSigns \/ AssembleRecoverableSignature \/ RLPEncode \/ ToHex \/ Reply

Spec == Init /\ [][Next]_vars

-----------------------------------------------------------------------------
(* What the network makes of a signed transaction, by the EIPs. *)

Fields(bytes) == DecodeList(Decode(bytes).content)
SignedFields == IF request.type = "0" THEN Fields(output) ELSE Fields(Tail(output))
Encoded(item) == IF item.kind = "list" THEN EncodeLength(Len(item.content), 192) \o item.content ELSE EncodeBytes(item.content)
Number(item) == ToInt(item.content)
Canonical(item) == item.kind = "string" /\ (item.content # <<>> => item.content[1] # 0)
First(fields, n) == [i \in 1..n |-> Encoded(fields[i])]

\* The signed bytes and the recovery bit of the fields f: EIP-155, EIP-1559.
ReadLegacy(f) ==
    LET v == Number(f[7]) IN
    [size |-> 9, chainID |-> (v - 35) \div 2, y |-> (v - 35) % 2,
     signed |-> EncodeList(First(f, 6) \o <<EncodeBigInt((v - 35) \div 2), EncodeBigInt(0), EncodeBigInt(0)>>)]
ReadEIP1559(f) ==
    [size |-> 12, chainID |-> Number(f[1]), y |-> Number(f[10]), signed |-> <<2>> \o EncodeList(First(f, 9))]

ReadAccessList(item) ==
    LET entries == DecodeList(item.content) IN
    [i \in DOMAIN entries |->
        LET entry == DecodeList(entries[i].content)
            keys == DecodeList(entry[2].content)
        IN [address |-> entry[1].content, keys |-> [k \in DOMAIN keys |-> keys[k].content]]]

\* Typed data comes back as r and s in a word each, and the recovery byte.
TypedDataRecovers ==
    LET R == SubSeq(output, 1, WordLength)
        S == SubSeq(output, WordLength + 1, 2 * WordLength)
    IN /\ Len(output) = 2 * WordLength + 1
       /\ RecoverCompact(output[2 * WordLength + 1], ToInt(R), ToInt(S), request.asked.hash) = request.from

TransactionRecovers ==
    LET f == SignedFields
        read == IF request.type = "0" THEN ReadLegacy(f) ELSE ReadEIP1559(f)
    IN /\ Len(f) = read.size
       /\ read.chainID = request.asked.chainID
       /\ RecoverCompact(27 + read.y, Number(f[read.size - 1]), Number(f[read.size]), read.signed) = request.from

(* Whoever receives what was signed takes it for signed by the account that was
   to sign it, on the chain it was to be signed for: what a transaction is
   encoded with (RLPEncode, types.go:278) is what was hashed (Hash,
   types.go:357), and the recovery byte is that of the signature as it is sent
   (generateEthereumSignature, utils.go:14, and ToHex, utils.go:121). *)
SenderRecovers ==
    pc = "done" => IF request.type = "typed" THEN TypedDataRecovers ELSE TransactionRecovers

(* The fields of a signed transaction are those the client gave, in numbers
   the network accepts: none but a gas limit of 0 has a leading zero.  Nothing
   the client gave besides is left out of a transaction of type 2, nor of a
   legacy one with a gas price; without a price, a legacy transaction stands
   for no fee of type 2, but the access list and the fields of the types 3 and
   4 are left out of it (identifyTxType, hsm_connector.go:656). *)
SignedAsAsked ==
    pc = "done" /\ request.type \in {"0", "2"} =>
        LET t == request.asked
            f == SignedFields
            k == IF request.type = "0" THEN 0 ELSE 2        \* fields before the price
            Says(i, n) == Number(f[i]) = n /\ (Canonical(f[i]) \/ (i = k + 3 /\ t.gas = 0))
        IN /\ Says(IF request.type = "0" THEN 1 ELSE 2, t.nonce)
           /\ Says(k + 2, IF request.type = "0" THEN Or(t.gasPrice, 0) ELSE t.maxFee)
           /\ Says(k + 3, Or(t.gas, DefaultGas))
           /\ f[k + 4].content = ToBytes(t)
           /\ Says(k + 5, Or(t.value, 0))
           /\ f[k + 6].content = t.data
           /\ request.type = "0" => ~Given(t.maxFee) /\ ~Given(t.maxPriority)
           /\ request.type = "0" /\ Given(t.gasPrice) => ~Given(t.accessList) /\ ~Given(t.blobFee) /\ ~t.others
           /\ request.type = "2" =>
                /\ Says(3, t.maxPriority) /\ Says(1, t.chainID)
                /\ ReadAccessList(f[9]) = t.accessList
                /\ ~Given(t.gasPrice) /\ ~Given(t.blobFee) /\ ~t.others

(* A signature that leaves the connector is of the account that was asked for,
   over what was asked for, and low (signatureToLowS, utils.go:56), whatever
   the backend answers. *)
SignaturesLowAndOwn ==
    pc \in {"encode", "done"} =>
        /\ signature.s \in 1..HalfOrder /\ signature.r \in 1..(Order - 1)
        /\ RecoverCompact(signature.v, signature.r, signature.s, payload) = request.from

(* No good answer of the backend is turned down, high or low and with either
   recovery byte (assembleRecoverableSignature, hsm_connector.go:397). *)
GoodAnswersSign ==
    pc = "error" /\ answer # Nothing =>
        ~(/\ answer.by = request.from
          /\ answer.size = 2 * WordLength
          /\ {answer.r, answer.s} \subseteq 1..(Order - 1))
=============================================================================
