--------------------------- MODULE EndpointsProofs ---------------------------
(***************************************************************************)
(* Proofs about Endpoints, for every set of PATCH requests, columns and    *)
(* values.                                                                 *)
(***************************************************************************)
EXTENDS Endpoints, TLAPS

Columns == [Field -> Value]

\* What validateEndpoint accepts of a merge is a row, and none of the cases in
\* which null has cleared Active.
LEMMA AcceptedMerge ==
    ASSUME NEW old, NEW in, Accepts(Merge(old, in))
    PROVE  /\ Merge(old, in) \in Columns
           /\ \A f \in Field : IF Asked(in, f) THEN Merge(old, in)[f] = in[f]
                                               ELSE Merge(old, in)[f] = old[f]
<1>1. \A f \in Field : Merge(old, in)[f] \in Value /\ Merge(old, in)[f] # NULL
  BY ValueAssumption DEF Accepts
<1>2. \A f \in Field : Merge(old, in)[f] =
        IF Asked(in, f) THEN in[f]
        ELSE IF f = "active" /\ f \in DOMAIN in THEN NULL ELSE old[f]
  BY DEF Merge
<1>3. Merge(old, in) = [f \in Field |-> Merge(old, in)[f]]
  BY DEF Merge
<1>4. Merge(old, in) \in Columns
  BY <1>1, <1>3 DEF Columns
<1> QED BY <1>1, <1>2, <1>4

\* A row is never mistaken for a missing one.
LEMMA ColumnsNotNull == NULL \notin Columns /\ NULL \notin Value
BY ValueAssumption DEF Columns

\* The histories of what was asked for have the right type, and asked only grows.
LEMMA RecordKeepsTypes ==
    ASSUME NEW in, Record(in), wish \in Columns, asked \in [Field -> SUBSET Value],
           \A f \in Field : Asked(in, f) => in[f] \in Value
    PROVE  /\ wish' \in Columns /\ asked' \in [Field -> SUBSET Value]
           /\ \A f \in Field : /\ asked[f] \subseteq asked'[f]
                               /\ Asked(in, f) => in[f] \in asked'[f]
<1>1. /\ wish' = [f \in Field |-> IF Asked(in, f) THEN in[f] ELSE wish[f]]
      /\ asked' = [f \in Field |->
                     IF Asked(in, f) THEN asked[f] \cup {in[f]} ELSE asked[f]]
  BY DEF Record
<1>2. \A f \in Field : wish[f] \in Value /\ asked[f] \in SUBSET Value
  BY DEF Columns
<1>3. wish' \in Columns
  BY <1>1, <1>2 DEF Columns
<1>4. asked' \in [Field -> SUBSET Value]
  BY <1>1, <1>2
<1> QED BY <1>1, <1>3, <1>4

\* Before POST there is no row and no PATCH on its way.
LEMMA EndpointInit == Init => EndpointInv
<1> SUFFICES ASSUME Init PROVE EndpointInv
  OBVIOUS
<1>1. TypeOK
  BY DEF Init, TypeOK
<1>2. \A r \in Request : Prepared(r) /\ UpToDate(r)
  BY DEF Init, Prepared, UpToDate
<1> QED BY <1>1, <1>2 DEF Init, EndpointInv, RowAlwaysValid, NothingInvented, PatchesMerge

\* createEndpoint.
LEMMA CreateStep ==
    ASSUME EndpointInv, NEW in \in Body, Create(in) PROVE EndpointInv'
<1> DEFINE v == [Merge(Default, in) EXCEPT !["active"] = IF @ = NULL THEN 1 ELSE @]
<1>1. /\ row = NULL /\ Accepts(v) /\ row' = v /\ wish' = v
      /\ asked' = [f \in Field |-> {v[f]}]
      /\ UNCHANGED <<deleted, pc, body, merged, answer, fresh, overlapped>>
  BY DEF Create
<1>2. v = [f \in Field |-> v[f]]
  BY DEF Merge
<1>3. v \in Columns
  <2>1. \A f \in Field : v[f] \in Value
    BY <1>1, ValueAssumption DEF Accepts
  <2> QED BY <1>2, <2>1 DEF Columns
<1>4. \A r \in Request : pc[r] \notin {"decode", "write"}
  BY <1>1 DEF EndpointInv, Prepared
<1>5. TypeOK'
  <2>1. asked' \in [Field -> SUBSET Value]
    BY <1>1, <1>3 DEF Columns
  <2> QED BY <1>1, <1>3, <2>1 DEF EndpointInv, TypeOK, Columns
<1>6. RowAlwaysValid' /\ NothingInvented' /\ PatchesMerge'
  BY <1>1 DEF RowAlwaysValid, NothingInvented, PatchesMerge, Accepts
<1>7. \A r \in Request : Prepared(r)' /\ UpToDate(r)'
  BY <1>1, <1>4 DEF Prepared, UpToDate
<1>8. (row = NULL <=> wish = NULL)'
  BY <1>1
<1> QED BY <1>5, <1>6, <1>7, <1>8 DEF EndpointInv

\* The steps of a PATCH before its UPDATE, and its failures.
LEMMA PatchStep ==
    ASSUME EndpointInv, NEW r \in Request,
           (\E in \in Body : Read(r, in)) \/ Decode(r) \/ Fail(r)
    PROVE  EndpointInv'
<1>1. UNCHANGED <<row, deleted, wish, asked, overlapped>>
  BY DEF Read, Decode, Fail
<1>2. /\ (row = NULL <=> wish = NULL)' /\ RowAlwaysValid'
      /\ NothingInvented' /\ PatchesMerge'
  BY <1>1 DEF EndpointInv, RowAlwaysValid, NothingInvented, PatchesMerge
<1>3. ASSUME NEW code \in {400, 404, 500}, Reply(r, code)
      PROVE  /\ answer' \in [Request -> {NULL, 200, 400, 404, 500}]
             /\ pc' \in [Request -> {"idle", "decode", "write", "done"}]
             /\ pc'[r] = "done" /\ \A q \in Request \ {r} : pc'[q] = pc[q]
  BY <1>3 DEF Reply, EndpointInv, TypeOK
<1>4. TypeOK' /\ \A q \in Request : Prepared(q)' /\ UpToDate(q)'
  <2>1. CASE \E in \in Body : Read(r, in)
    <3>1. PICK in \in Body : Read(r, in)
      BY <2>1
    <3>2. /\ body' \in [Request -> Body \cup {NULL}] /\ body'[r] = in
          /\ \A q \in Request \ {r} : body'[q] = body[q]
      BY <3>1 DEF Read, EndpointInv, TypeOK
    <3>3. CASE /\ Readable
               /\ merged' = [merged EXCEPT ![r] = row]
               /\ fresh' = fresh \cup {r}
               /\ pc' = [pc EXCEPT ![r] = "decode"]
               /\ UNCHANGED answer
      <4>1. TypeOK'
        BY <1>1, <3>2, <3>3 DEF EndpointInv, TypeOK
      <4>2. /\ merged'[r] = row /\ row # NULL /\ pc'[r] = "decode"
            /\ \A q \in Request \ {r} : /\ merged'[q] = merged[q] /\ pc'[q] = pc[q]
                                        /\ q \in fresh' <=> q \in fresh
        BY <3>3 DEF EndpointInv, TypeOK, Readable
      <4>3. \A q \in Request : Prepared(q)'
        BY <1>1, <3>2, <4>2 DEF EndpointInv, NothingInvented, Prepared, Accepts, Asked
      <4>4. \A q \in Request : UpToDate(q)'
        BY <1>1, <3>2, <4>2 DEF EndpointInv, UpToDate, Asked
      <4> QED BY <4>1, <4>3, <4>4
    <3>4. CASE ~Readable /\ Reply(r, 404) /\ UNCHANGED <<merged, fresh>>
      <4>1. TypeOK'
        BY <1>1, <1>3, <3>2, <3>4 DEF EndpointInv, TypeOK
      <4>2. \A q \in Request : Prepared(q)'
        BY <1>1, <1>3, <3>2, <3>4 DEF EndpointInv, Prepared, Accepts, Asked
      <4>3. \A q \in Request : UpToDate(q)'
        BY <1>1, <1>3, <3>2, <3>4 DEF EndpointInv, UpToDate, Asked
      <4> QED BY <4>1, <4>2, <4>3
    <3> QED BY <3>1, <3>3, <3>4 DEF Read
  <2>2. CASE Decode(r)
    <3> DEFINE v == Merge(merged[r], body[r])
    <3>1. pc[r] = "decode" /\ UNCHANGED <<body, fresh>>
      BY <2>2 DEF Decode
    <3>2. CASE /\ Accepts(v)
               /\ merged' = [merged EXCEPT ![r] = v]
               /\ pc' = [pc EXCEPT ![r] = "write"]
               /\ UNCHANGED answer
      <4>1. /\ v \in Columns
            /\ \A f \in Field : IF Asked(body[r], f) THEN v[f] = body[r][f]
                                                     ELSE v[f] = merged[r][f]
        BY <3>2, AcceptedMerge
      <4>2. TypeOK'
        BY <1>1, <3>1, <3>2, <4>1 DEF EndpointInv, TypeOK, Columns
      <4>3. /\ merged'[r] = v /\ pc'[r] = "write"
            /\ \A q \in Request \ {r} : merged'[q] = merged[q] /\ pc'[q] = pc[q]
        BY <3>2 DEF EndpointInv, TypeOK
      <4>4. Prepared(r)'
        <5>1. Accepts(merged[r])'
          BY <3>2, <4>3 DEF Accepts
        <5>2. /\ body[r] \in Body /\ row # NULL
              /\ \A f \in Field : merged[r][f] \in asked[f]
          BY <3>1 DEF EndpointInv, Prepared
        <5> HIDE DEF v
        <5>3. \A f \in Field : IF Asked(body'[r], f) THEN merged'[r][f] = body'[r][f]
                                                     ELSE merged'[r][f] \in asked'[f]
          BY <1>1, <3>1, <4>1, <4>3, <5>2 DEF Asked
        <5> QED BY <1>1, <3>1, <4>1, <4>3, <5>1, <5>2, <5>3, ColumnsNotNull DEF Prepared
      <4>5. UpToDate(r)'
        <5>1. r \in fresh => merged[r] = row
          BY <3>1 DEF EndpointInv, UpToDate
        <5> HIDE DEF v
        <5> QED BY <1>1, <3>1, <4>1, <4>3, <5>1 DEF UpToDate, Asked
      <4>6. \A q \in Request \ {r} : Prepared(q)' /\ UpToDate(q)'
        BY <1>1, <3>1, <4>3 DEF EndpointInv, Prepared, UpToDate, Accepts, Asked
      <4> QED BY <4>2, <4>4, <4>5, <4>6
    <3>3. CASE ~Accepts(v) /\ Reply(r, 400) /\ UNCHANGED merged
      <4>1. TypeOK'
        BY <1>1, <1>3, <3>1, <3>3 DEF EndpointInv, TypeOK
      <4>2. \A q \in Request : Prepared(q)' /\ UpToDate(q)'
        BY <1>1, <1>3, <3>1, <3>3 DEF EndpointInv, Prepared, UpToDate, Accepts, Asked
      <4> QED BY <4>1, <4>2
    <3> QED BY <2>2, <3>2, <3>3 DEF Decode
  <2>3. CASE Fail(r)
    <3>1. TypeOK'
      BY <1>1, <1>3, <2>3 DEF Fail, EndpointInv, TypeOK
    <3>2. \A q \in Request : Prepared(q)' /\ UpToDate(q)'
      BY <1>1, <1>3, <2>3 DEF Fail, EndpointInv, Prepared, UpToDate, Accepts, Asked
    <3> QED BY <3>1, <3>2
  <2> QED BY <2>1, <2>2, <2>3
<1> QED BY <1>2, <1>4 DEF EndpointInv

\* The UPDATE of a PATCH.  A fresh one gives the columns that its body names
\* what was asked for, and the others what they have.
LEMMA WriteStep ==
    ASSUME EndpointInv, NEW r \in Request, Write(r) PROVE EndpointInv'
<1>1. /\ pc[r] = "write" /\ row' = merged[r] /\ UNCHANGED <<deleted, body, merged>>
      /\ fresh' = {} /\ overlapped' = (overlapped \/ r \notin fresh)
      /\ wish' = [f \in Field |-> IF Asked(body[r], f) THEN body[r][f] ELSE wish[f]]
      /\ Record(body[r])
  BY DEF Write, Written, Record
<1>2. /\ merged[r] \in Columns /\ Accepts(merged[r]) /\ row \in Columns /\ wish \in Columns
      /\ \A f \in Field : IF Asked(body[r], f) THEN merged[r][f] = body[r][f]
                                               ELSE merged[r][f] \in asked[f]
  BY <1>1 DEF EndpointInv, TypeOK, Prepared, Columns
<1>3. /\ row' # NULL /\ wish' \in Columns /\ asked' \in [Field -> SUBSET Value]
      /\ \A f \in Field : /\ asked[f] \subseteq asked'[f]
                          /\ Asked(body[r], f) => body[r][f] \in asked'[f]
  <2>1. \A f \in Field : Asked(body[r], f) => body[r][f] \in Value
    BY <1>2 DEF Columns
  <2>2. asked \in [Field -> SUBSET Value]
    BY DEF EndpointInv, TypeOK
  <2> QED BY <1>1, <1>2, <2>1, <2>2, ColumnsNotNull, RecordKeepsTypes
<1>4. /\ pc'[r] = "done" /\ \A q \in Request \ {r} : pc'[q] = pc[q]
      /\ pc' \in [Request -> {"idle", "decode", "write", "done"}]
      /\ answer' \in [Request -> {NULL, 200, 400, 404, 500}]
  BY DEF Write, Reply, EndpointInv, TypeOK
<1>5. TypeOK'
  <2>1. overlapped' \in BOOLEAN
    BY <1>1
  <2> QED BY <1>1, <1>2, <1>3, <1>4, <2>1 DEF EndpointInv, TypeOK, Columns
<1>6. RowAlwaysValid' /\ NothingInvented'
  <2>1. \A f \in Field : merged[r][f] \in asked'[f]
    BY <1>2, <1>3
  <2> QED BY <1>1, <1>2, <2>1 DEF RowAlwaysValid, NothingInvented, Accepts
<1>7. PatchesMerge'
  <2> SUFFICES ASSUME ~overlapped' PROVE row' = wish'
    BY DEF PatchesMerge
  <2>1. r \in fresh /\ row = wish
    BY <1>1, <1>2, ColumnsNotNull DEF EndpointInv, PatchesMerge
  <2>2. \A f \in Field : Asked(body[r], f) \/ merged[r][f] = row[f]
    BY <1>1, <2>1 DEF EndpointInv, UpToDate
  <2>3. \A f \in Field : row'[f] = wish'[f]
    BY <1>1, <1>2, <2>1, <2>2
  <2> QED BY <1>1, <1>2, <1>3, <2>3 DEF Columns
<1>8. \A q \in Request : Prepared(q)' /\ UpToDate(q)'
  BY <1>1, <1>3, <1>4 DEF EndpointInv, Prepared, UpToDate, Accepts, Asked
<1>9. (row = NULL <=> wish = NULL)'
  BY <1>3, ColumnsNotNull
<1> QED BY <1>5, <1>6, <1>7, <1>8, <1>9 DEF EndpointInv

\* deleteEndpoint.
LEMMA DeleteStep == ASSUME EndpointInv, Delete PROVE EndpointInv'
<1>1. /\ row # NULL /\ row' = [row EXCEPT !["active"] = 0] /\ fresh' = {}
      /\ Record([f \in {"active"} |-> 0]) /\ deleted' = TRUE
      /\ UNCHANGED <<pc, body, merged, answer, overlapped>>
  BY DEF Delete, Readable
<1>2. row \in Columns /\ wish \in Columns
  BY <1>1 DEF EndpointInv, TypeOK, Columns
<1> DEFINE in == [f \in {"active"} |-> 0]
<1>3. /\ row' \in Columns /\ wish' \in Columns /\ asked' \in [Field -> SUBSET Value]
      /\ \A f \in Field : asked[f] \subseteq asked'[f]
      /\ 0 \in asked'["active"]
      /\ wish' = [wish EXCEPT !["active"] = 0]
  <2>1. 0 \in Value /\ 0 # NULL
    BY ValueAssumption
  <2>2. \A f : (Asked(in, f) <=> f = "active") /\ (f = "active" => in[f] = 0)
    BY <2>1 DEF Asked
  <2>3. asked \in [Field -> SUBSET Value] /\ Record(in)
    BY <1>1 DEF EndpointInv, TypeOK
  <2>4. wish' = [f \in Field |-> IF Asked(in, f) THEN in[f] ELSE wish[f]]
    BY <2>3 DEF Record
  <2> HIDE DEF in
  <2>5. row' \in Columns
    BY <1>1, <1>2, <2>1 DEF Columns
  <2>6. /\ wish' \in Columns /\ asked' \in [Field -> SUBSET Value]
        /\ \A f \in Field : /\ asked[f] \subseteq asked'[f]
                            /\ Asked(in, f) => in[f] \in asked'[f]
    BY <1>2, <2>1, <2>2, <2>3, RecordKeepsTypes
  <2>7. 0 \in asked'["active"]
    BY <2>2, <2>6, FieldAssumption
  <2>8. wish' = [wish EXCEPT !["active"] = 0]
    BY <1>2, <2>2, <2>4 DEF Columns
  <2> QED BY <2>5, <2>6, <2>7, <2>8
<1>4. TypeOK'
  BY <1>1, <1>3 DEF EndpointInv, TypeOK, Columns
<1>5. RowAlwaysValid' /\ NothingInvented'
  BY <1>1, <1>2, <1>3, ValueAssumption
     DEF EndpointInv, RowAlwaysValid, NothingInvented, Columns
<1>6. PatchesMerge'
  BY <1>1, <1>3 DEF EndpointInv, PatchesMerge
<1>7. \A q \in Request : Prepared(q)' /\ UpToDate(q)'
  BY <1>1, <1>3, ColumnsNotNull DEF EndpointInv, Prepared, UpToDate, Accepts, Asked
<1>8. (row = NULL <=> wish = NULL)'
  BY <1>3, ColumnsNotNull
<1> QED BY <1>4, <1>5, <1>6, <1>7, <1>8 DEF EndpointInv

\* Every step keeps the invariant of the endpoint row.
LEMMA EndpointStep == EndpointInv /\ [Next]_vars => EndpointInv'
<1> SUFFICES ASSUME EndpointInv, [Next]_vars PROVE EndpointInv'
  OBVIOUS
<1>1. CASE UNCHANGED vars
  BY <1>1 DEF vars, EndpointInv, TypeOK, Prepared, UpToDate, RowAlwaysValid, NothingInvented,
              PatchesMerge, Accepts, Asked
<1>2. CASE Next
  BY <1>2, CreateStep, PatchStep, WriteStep, DeleteStep DEF Next
<1> QED BY <1>1, <1>2

\* The inductive invariant: what a PATCH is about to write was accepted as a
\* whole, and one whose row is as it read it changes only what it was asked.
THEOREM EndpointInvariant == Spec => []EndpointInv
BY EndpointInit, EndpointStep, PTL DEF Spec

\* validateEndpoint holds for the stored row at all times, although no PATCH
\* validates the row that it replaces.
THEOREM RowStaysValid == Spec => []RowAlwaysValid
<1>1. EndpointInv => RowAlwaysValid
  BY DEF EndpointInv
<1> QED BY <1>1, EndpointInvariant, PTL

\* Whatever an overlap loses, every column has a value that some request asked
\* for: the row a PATCH has in its hands comes from requests before it.
THEOREM NothingIsInvented == Spec => []NothingInvented
<1>1. EndpointInv => NothingInvented
  BY DEF EndpointInv
<1> QED BY <1>1, EndpointInvariant, PTL

\* As long as no PATCH wrote over a change that it had not seen, every column
\* has the value last asked for.
THEOREM PatchesAreMerged == Spec => []PatchesMerge
<1>1. EndpointInv => PatchesMerge
  BY DEF EndpointInv
<1> QED BY <1>1, EndpointInvariant, PTL

\* No step makes a deleted endpoint live: the UPDATE of a late PATCH may set
\* active, but leaves deleted_at alone.
THEOREM DeletedStaysDead == Spec => DeletedForGood
<1>1. [Next]_vars => [deleted => ~Live']_vars
  BY DEF vars, Next, Create, Read, Decode, Write, Fail, Delete, Live, Readable
<1> QED BY <1>1, PTL DEF Spec, DeletedForGood
==============================================================================
