------------------------------ MODULE GqlCodec ------------------------------
(***************************************************************************)
(* The wire format of engine/gql: frames (frame.go), queries (types.go),   *)
(* and what stage 1 of the validator (validator.go) asks of them, as       *)
(* operators.  The wire is a sequence of cells that hold 0 .. Radix - 1.   *)
(* Lengths, counts and numbers take one cell each, which stands for the 1, *)
(* 2 or 4 bytes they take in the code: what matters is that a length wraps *)
(* at Radix, that limits lie below Radix, and that a cell read out of step *)
(* is taken for whatever the reader expects.  A text is a sequence of      *)
(* cells, its characters.                                                  *)
(***************************************************************************)
EXTENDS Integers, Sequences, FiniteSets, FiniteSetsExt, SequencesExt

CONSTANTS
  Radix,
  IdentChars,       \* characters that isIdentChar allows
  PrintableChars,   \* characters that validatePrintable allows
  ReadOps, WriteOps,
  MaxPayloadSize, MaxNamespaceLen, MaxEntryIDLen, MaxCategoryLen,
  MaxFieldKeyLen, MaxFieldValueLen, MaxFieldsCount

ASSUME CodecAssumption ==
  /\ Radix \in Nat
  /\ IdentChars \subseteq PrintableChars
  /\ PrintableChars \subseteq 0 .. Radix - 1
  /\ ReadOps \cap WriteOps = {} /\ <<>> \notin ReadOps \cup WriteOps
  /\ \A limit \in {MaxNamespaceLen, MaxEntryIDLen, MaxCategoryLen,
                   MaxFieldKeyLen, MaxFieldValueLen, MaxFieldsCount} :
       limit \in 1 .. Radix - 1

Version == 1
QUERY == 1
MUTATE == 2
RESULT == 3
ERROR == 4
Opcodes == {QUERY, MUTATE, RESULT, ERROR}
isReadOperation(op) == op \in ReadOps
isWriteOperation(op) == op \in WriteOps
FrameHeaderSize == 4   \* version, opcode, flags and payload size

Malformed == [operation |-> "malformed"]

-----------------------------------------------------------------------------
\* Queries.

Cells == 0 .. Radix - 1
Texts == Seq(Cells)

\* GQLQuery: texts, a map from texts to texts, and two numbers.
IsGQLQuery(q) ==
  /\ q \in [operation: Texts, namespace: Texts, entryID: Texts, category: Texts,
            title: Texts, fields: {q.fields}, limit: Cells, offset: Cells,
            credentials: Texts]
  /\ q.fields \in [DOMAIN q.fields -> Texts]
  /\ IsFiniteSet(DOMAIN q.fields) /\ DOMAIN q.fields \subseteq Texts

\* The length in one cell, then the whole text.
serializeField(s) == <<Len(s) % Radix>> \o s

\* Reads n texts one after the other from cell 2 on.
deserializeFields(p, n) ==
  LET Read[k \in 0 .. n] ==
        IF k = 0 THEN [ok |-> TRUE, off |-> 2, texts |-> <<>>]
        ELSE LET r == Read[k - 1]
             IN IF r.ok /\ r.off <= Len(p) /\ r.off + p[r.off] <= Len(p)
                THEN [ok |-> TRUE, off |-> r.off + p[r.off] + 1,
                      texts |-> Append(r.texts,
                                  SubSeq(p, r.off + 1, r.off + p[r.off]))]
                ELSE [r EXCEPT !.ok = FALSE]
  IN Read[n]

\* The field count as one cell, then capped.
FieldCount(n) ==
  IF n % Radix > MaxFieldsCount THEN MaxFieldsCount ELSE n % Radix

\* GQLQuery.Encode, with the fields in the order in which the map yields them.
Encode(q, order) ==
  LET texts == <<q.operation, q.namespace, q.entryID, q.category, q.title>>
               \o FlattenSeq([i \in DOMAIN order |->
                                <<order[i], q.fields[order[i]]>>])
  IN <<FieldCount(Len(order))>>
     \o FlattenSeq([i \in DOMAIN texts |-> serializeField(texts[i])])
     \o <<q.limit, q.offset>> \o serializeField(q.credentials)

\* The map built from key, value, key, value, ...: a later key overwrites.
FieldMap(texts) ==
  LET Pairs == 1 .. Len(texts) \div 2
  IN [k \in {texts[2 * i - 1] : i \in Pairs} |->
        texts[2 * Max({i \in Pairs : texts[2 * i - 1] = k})]]

\* The optional credentials after cell off; cells after them are ignored.
Credentials(p, off) ==
  IF off > Len(p) THEN <<>> ELSE SubSeq(p, off + 1, off + p[off])

DecodeQuery(p) ==
  LET r == deserializeFields(p, 5 + 2 * p[1])
      t == r.texts
  IN IF \/ p = <<>> \/ p[1] > MaxFieldsCount \/ ~ r.ok
        \/ r.off + 1 > Len(p)
        \/ r.off + 2 <= Len(p) /\ r.off + 2 + p[r.off + 2] > Len(p)
     THEN Malformed
     ELSE [operation |-> t[1], namespace |-> t[2], entryID |-> t[3],
           category |-> t[4], title |-> t[5],
           fields |-> FieldMap(SubSeq(t, 6, Len(t))),
           limit |-> p[r.off], offset |-> p[r.off + 1],
           credentials |-> Credentials(p, r.off + 2)]

-----------------------------------------------------------------------------
\* Frames.

FrameBytes(opcode, payload) == <<Version, opcode, 0, Len(payload)>> \o payload

NewQueryFrame(q, order) ==
  FrameBytes(IF isWriteOperation(q.operation) THEN MUTATE ELSE QUERY,
             Encode(q, order))

NewResultFrame(json) == FrameBytes(RESULT, json)
NewErrorFrame(json) == FrameBytes(ERROR, json)

\* Slip: a frame shorter than its header says is taken for what it is.
FrameDecodes_AnyLength(data) ==
  /\ Len(data) >= FrameHeaderSize
  /\ data[1] = Version /\ data[2] \in Opcodes
  /\ data[4] <= MaxPayloadSize

\* DecodeFrame returns no error.
FrameDecodes(data) ==
  /\ Len(data) >= FrameHeaderSize
  /\ data[1] = Version /\ data[2] \in Opcodes
  /\ data[4] <= MaxPayloadSize
  /\ Len(data) = FrameHeaderSize + data[4]

Payload(data) == SubSeq(data, FrameHeaderSize + 1, Len(data))

-----------------------------------------------------------------------------
\* Stage 1 of the validator.

Identifier(s, maxLen) == Len(s) <= maxLen /\ ToSet(s) \subseteq IdentChars
Printable(s, maxLen) == Len(s) <= maxLen /\ ToSet(s) \subseteq PrintableChars

validateQuery(q, opcode) ==
  /\ q.namespace # <<>> /\ Identifier(q.namespace, MaxNamespaceLen)
  /\ Identifier(q.entryID, MaxEntryIDLen)
  /\ Identifier(q.category, MaxCategoryLen)
  /\ Printable(q.title, MaxFieldValueLen)
  /\ Cardinality(DOMAIN q.fields) <= MaxFieldsCount
  /\ \A k \in DOMAIN q.fields : /\ Identifier(k, MaxFieldKeyLen)
                                /\ Printable(q.fields[k], MaxFieldValueLen)
  /\ opcode = QUERY => isReadOperation(q.operation)
  /\ opcode = MUTATE => isWriteOperation(q.operation)

\* The query of a QUERY or MUTATE frame that passes stage 1, or Malformed.
Stage1(data) ==
  LET p == Payload(data)
      q == DecodeQuery(p)
  IN IF p = <<>> \/ p[1] > MaxFieldsCount \/ q = Malformed THEN Malformed
     ELSE IF validateQuery(q, data[2]) THEN q ELSE Malformed

=============================================================================
