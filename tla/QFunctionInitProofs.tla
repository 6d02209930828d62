------------------------- MODULE QFunctionInitProofs -------------------------
(***************************************************************************)
(* Proofs about QFunctionInit for every number of creations and every set *)
(* of requested names.                                                    *)
(***************************************************************************)
EXTENDS QFunctionInit, TLAPS

Calls(c) == Gallery[entry[c]]
NCalls(c) == Len(Calls(c))

\* Creation c has declared every field of its entry, in call order.
Complete(c) ==
  /\ InCallOrder(inputs[c], Calls(c), NCalls(c), "in")
  /\ InCallOrder(outputs[c], Calls(c), NCalls(c), "out")

\* Creation c has not started: no field and no return code.
Fresh(c) == inputs[c] = <<>> /\ outputs[c] = <<>> /\ ret[c] = "none"

\* The creations before cur succeeded, those after it have not started,
\* and cur's fields are the fields of its first k - 1 calls.
IInv ==
  /\ TypeOK
  /\ \A c \in Creations : c < cur =>
       ret[c] = "CEED_ERROR_SUCCESS" /\ requested[c] = entry[c] /\ Complete(c)
  /\ \A c \in Creations : c > cur => Fresh(c)
  /\ pc = "check" => Fresh(cur) /\ k = 1
  /\ pc = "add" =>
       /\ requested[cur] = entry[cur]
       /\ k \in 1 .. NCalls(cur)
       /\ ret[cur] = "none"
       /\ InCallOrder(inputs[cur], Calls(cur), k - 1, "in")
       /\ InCallOrder(outputs[cur], Calls(cur), k - 1, "out")
  /\ pc = "returned" =>
       \/ /\ ret[cur] = "CEED_ERROR_UNSUPPORTED" /\ requested[cur] # entry[cur]
          /\ inputs[cur] = <<>> /\ outputs[cur] = <<>>
       \/ ret[cur] = "CEED_ERROR_MAJOR" /\ requested[cur] = entry[cur]
       \/ /\ ret[cur] = "CEED_ERROR_SUCCESS" /\ requested[cur] = entry[cur]
          /\ Complete(cur)

USE NumCreationsAssumption

-----------------------------------------------------------------------------
(* Lemmas about InCallOrder.                                              *)

\* Before any call, no field of either direction has been declared.
LEMMA InCallOrderEmpty ==
  ASSUME NEW calls, NEW dir
  PROVE  InCallOrder(<<>>, calls, 0, dir)
<1>. DEFINE f == [m \in 1 .. 0 |-> 0]
<1>1. Len(<<>>) = 0  OBVIOUS
<1>2. f \in [1 .. Len(<<>>) -> 1 .. 0]  BY <1>1
<1>3. {f[m] : m \in 1 .. Len(<<>>)} = {i \in 1 .. 0 : calls[i][1] = dir}  BY <1>1
<1>4. \A a, b \in 1 .. Len(<<>>) : a < b => f[a] < f[b]  BY <1>1
<1>5. \A m \in 1 .. Len(<<>>) : <<>>[m] = calls[f[m]][2]  BY <1>1
<1>. QED  BY <1>2, <1>3, <1>4, <1>5 DEF InCallOrder

\* Call n + 1 extends the fields of its direction by its own field and
\* leaves the other direction's as they were.
LEMMA InCallOrderStep ==
  ASSUME NEW S, NEW s \in Seq(S), NEW calls, NEW n \in Nat, NEW dir,
         InCallOrder(s, calls, n, dir)
  PROVE  /\ calls[n + 1][1] = dir /\ calls[n + 1][2] \in S =>
              InCallOrder(Append(s, calls[n + 1][2]), calls, n + 1, dir)
         /\ calls[n + 1][1] # dir => InCallOrder(s, calls, n + 1, dir)
<1>. PICK f \in [1 .. Len(s) -> 1 .. n] :
       /\ \A a, b \in 1 .. Len(s) : a < b => f[a] < f[b]
       /\ {f[m] : m \in 1 .. Len(s)} = {i \in 1 .. n : calls[i][1] = dir}
       /\ \A m \in 1 .. Len(s) : s[m] = calls[f[m]][2]
  BY DEF InCallOrder
<1>1. ASSUME calls[n + 1][1] = dir, calls[n + 1][2] \in S
      PROVE  InCallOrder(Append(s, calls[n + 1][2]), calls, n + 1, dir)
  <2>. DEFINE t == Append(s, calls[n + 1][2])
              g == [m \in 1 .. Len(s) + 1 |-> IF m <= Len(s) THEN f[m] ELSE n + 1]
  <2>1. Len(t) = Len(s) + 1  OBVIOUS
  <2>2. g \in [1 .. Len(t) -> 1 .. n + 1]  BY <2>1
  <2>3. \A a, b \in 1 .. Len(t) : a < b => g[a] < g[b]  BY <2>1
  <2>4. {g[m] : m \in 1 .. Len(t)} = {i \in 1 .. n + 1 : calls[i][1] = dir}
    <3>1. {g[m] : m \in 1 .. Len(t)} = {f[m] : m \in 1 .. Len(s)} \cup {n + 1}
      BY <2>1
    <3>2. {i \in 1 .. n + 1 : calls[i][1] = dir}
            = {i \in 1 .. n : calls[i][1] = dir} \cup {n + 1}
      BY <1>1
    <3>. QED  BY <3>1, <3>2
  <2>5. \A m \in 1 .. Len(t) : t[m] = calls[g[m]][2]  BY <2>1
  <2>. QED  BY <2>2, <2>3, <2>4, <2>5 DEF InCallOrder
<1>2. ASSUME calls[n + 1][1] # dir
      PROVE  InCallOrder(s, calls, n + 1, dir)
  <2>1. f \in [1 .. Len(s) -> 1 .. n + 1]  OBVIOUS
  <2>2. {i \in 1 .. n + 1 : calls[i][1] = dir} = {i \in 1 .. n : calls[i][1] = dir}
    BY <1>2
  <2>. QED  BY <2>1, <2>2 DEF InCallOrder
<1>. QED  BY <1>1, <1>2

-----------------------------------------------------------------------------
(* The gallery's two entries.                                             *)

\* A declared field is a record of a name, a size and a mode.
LEMMA FieldType ==
  ASSUME NEW n \in FieldNames, NEW sz \in Nat, NEW m \in EvalModes
  PROVE  Field(n, sz, m) \in Fields
BY DEF Field, Fields

\* The registry's lookup finds the entry registered under each name.
LEMMA GalleryLookup ==
  /\ Entries = {"Poisson3DBuild", "Vector3Poisson1DApply"}
  /\ Gallery["Poisson3DBuild"] = Poisson3DBuildFields
  /\ Gallery["Vector3Poisson1DApply"] = Vector3Poisson1DApplyFields
<1>1. Entries = {"Poisson3DBuild", "Vector3Poisson1DApply"}
  BY DEF Entries, Registry, Poisson3DBuildEntry, Vector3Poisson1DApplyEntry
<1>2. ASSUME NEW r \in Registry, r[1] = "Poisson3DBuild"
      PROVE  r = Poisson3DBuildEntry
  BY <1>2 DEF Registry, Poisson3DBuildEntry, Vector3Poisson1DApplyEntry
<1>3. ASSUME NEW r \in Registry, r[1] = "Vector3Poisson1DApply"
      PROVE  r = Vector3Poisson1DApplyEntry
  BY <1>3 DEF Registry, Poisson3DBuildEntry, Vector3Poisson1DApplyEntry
<1>4. /\ Poisson3DBuildEntry \in Registry
      /\ Poisson3DBuildEntry[1] = "Poisson3DBuild"
      /\ Vector3Poisson1DApplyEntry \in Registry
      /\ Vector3Poisson1DApplyEntry[1] = "Vector3Poisson1DApply"
  BY DEF Registry, Poisson3DBuildEntry, Vector3Poisson1DApplyEntry
<1>5. (CHOOSE r \in Registry : r[1] = "Poisson3DBuild") = Poisson3DBuildEntry
  BY <1>2, <1>4
<1>6. (CHOOSE r \in Registry : r[1] = "Vector3Poisson1DApply") = Vector3Poisson1DApplyEntry
  BY <1>3, <1>4
<1>7. Gallery["Poisson3DBuild"] = (CHOOSE r \in Registry : r[1] = "Poisson3DBuild")[2]
  BY <1>1 DEF Gallery
<1>8. Gallery["Vector3Poisson1DApply"]
        = (CHOOSE r \in Registry : r[1] = "Vector3Poisson1DApply")[2]
  BY <1>1 DEF Gallery
<1>9. Poisson3DBuildEntry[2] = Poisson3DBuildFields
  BY DEF Poisson3DBuildEntry
<1>10. Vector3Poisson1DApplyEntry[2] = Vector3Poisson1DApplyFields
  BY DEF Vector3Poisson1DApplyEntry
<1>. QED  BY <1>1, <1>5, <1>6, <1>7, <1>8, <1>9, <1>10

\* Every entry's calls form a non-empty sequence of (direction, field)
\* pairs.
LEMMA GalleryCalls ==
  ASSUME NEW e \in Entries
  PROVE  /\ Gallery[e] \in Seq({"in", "out"} \X Fields)
         /\ Len(Gallery[e]) \in Nat \ {0}
<1>1. Poisson3DBuildFields \in Seq({"in", "out"} \X Fields)
  <2>1. /\ Field("dx", 3 * 3, "GRAD") \in Fields
        /\ Field("weights", 1, "WEIGHT") \in Fields
        /\ Field("qdata", (3 * (3 + 1)) \div 2, "NONE") \in Fields
    <3>1. /\ {"dx", "weights", "qdata"} \subseteq FieldNames
          /\ {"GRAD", "WEIGHT", "NONE"} \subseteq EvalModes
      BY DEF FieldNames, EvalModes
    <3>2. {3 * 3, 1, (3 * (3 + 1)) \div 2} \subseteq Nat  OBVIOUS
    <3>. QED  BY <3>1, <3>2, FieldType
  <2>. QED  BY <2>1 DEF Poisson3DBuildFields
<1>2. Vector3Poisson1DApplyFields \in Seq({"in", "out"} \X Fields)
  <2>1. /\ Field("du", 3 * 1, "GRAD") \in Fields
        /\ Field("qdata", (1 * (1 + 1)) \div 2, "NONE") \in Fields
        /\ Field("dv", 3 * 1, "GRAD") \in Fields
    <3>1. /\ {"du", "qdata", "dv"} \subseteq FieldNames
          /\ {"GRAD", "NONE"} \subseteq EvalModes
      BY DEF FieldNames, EvalModes
    <3>2. {3 * 1, (1 * (1 + 1)) \div 2} \subseteq Nat  OBVIOUS
    <3>. QED  BY <3>1, <3>2, FieldType
  <2>. QED  BY <2>1 DEF Vector3Poisson1DApplyFields
<1>3. Len(Poisson3DBuildFields) = 3 /\ Len(Vector3Poisson1DApplyFields) = 3
  BY DEF Poisson3DBuildFields, Vector3Poisson1DApplyFields
<1>. QED  BY <1>1, <1>2, <1>3, GalleryLookup

-----------------------------------------------------------------------------
(* The inductive invariant.                                               *)

\* The entry of every creation has a non-empty sequence of calls.
LEMMA CallsOf ==
  ASSUME TypeOK, NEW c \in Creations
  PROVE  /\ Calls(c) \in Seq({"in", "out"} \X Fields)
         /\ NCalls(c) \in Nat \ {0}
BY GalleryCalls DEF TypeOK, Calls, NCalls

LEMMA IInvInit == Init => IInv
<1> SUFFICES ASSUME Init PROVE IInv  OBVIOUS
<1>1. cur \in Creations  BY DEF Init, Creations
<1>2. entry \in [Creations -> Entries]  BY DEF Init
<1>3. k \in 1 .. Len(Gallery[entry[cur]]) + 1  BY <1>1, <1>2, GalleryCalls DEF Init
<1>4. TypeOK  BY <1>1, <1>3 DEF Init, TypeOK, RetCodes
<1>5. \A c \in Creations : c # cur => Fresh(c)  BY DEF Init, Fresh
<1>6. Fresh(cur) /\ k = 1  BY <1>1 DEF Init, Fresh
<1>. QED  BY <1>4, <1>5, <1>6 DEF Init, IInv, Creations

\* The name check: a mismatch returns before any Add call, a match starts
\* the Add calls with nothing declared.
LEMMA CheckNameKeeps == IInv /\ CheckName => IInv'
<1> SUFFICES ASSUME IInv, CheckName PROVE IInv'  OBVIOUS
<1>1. TypeOK /\ pc = "check" /\ Fresh(cur) /\ k = 1  BY DEF IInv, CheckName
<1>2. UNCHANGED <<entry, requested, cur, k, inputs, outputs>>  BY DEF CheckName
<1>3. NCalls(cur) \in Nat \ {0}  BY <1>1, CallsOf DEF TypeOK
<1>4. TypeOK'  BY <1>1, <1>2, <1>3 DEF CheckName, TypeOK, RetCodes, NCalls, Calls
<1>5. \A c \in Creations : c # cur => ret'[c] = ret[c]  BY <1>1 DEF CheckName, TypeOK
<1>6. CASE NameMismatch(cur)
  <2>1. pc' = "returned" /\ ret'[cur] = "CEED_ERROR_UNSUPPORTED"  BY <1>1, <1>6 DEF CheckName, TypeOK
  <2>2. requested[cur] # entry[cur]  BY <1>6 DEF NameMismatch
  <2>. QED  BY <1>1, <1>2, <1>4, <1>5, <2>1, <2>2 DEF IInv, Fresh, Complete, Calls, NCalls
<1>7. CASE ~NameMismatch(cur)
  <2>1. pc' = "add" /\ ret' = ret  BY <1>7 DEF CheckName
  <2>2. requested[cur] = entry[cur]  BY <1>7 DEF NameMismatch
  <2>3. /\ InCallOrder(<<>>, Calls(cur), 0, "in")
        /\ InCallOrder(<<>>, Calls(cur), 0, "out")
    BY InCallOrderEmpty
  <2>. QED  BY <1>1, <1>2, <1>3, <1>4, <2>1, <2>2, <2>3 DEF IInv, Fresh, Complete, Calls, NCalls
<1>. QED  BY <1>6, <1>7

\* The caller moves on only after a success.
LEMMA NextCreationKeeps == IInv /\ NextCreation => IInv'
<1> SUFFICES ASSUME IInv, NextCreation PROVE IInv'  OBVIOUS
<1>1. TypeOK /\ pc = "returned" /\ ret[cur] = "CEED_ERROR_SUCCESS"  BY DEF IInv, NextCreation
<1>2. requested[cur] = entry[cur] /\ Complete(cur)  BY <1>1 DEF IInv
<1>3. cur' = cur + 1 /\ cur' \in Creations  BY <1>1 DEF NextCreation, TypeOK, Creations
<1>4. Fresh(cur)'
  <2>1. \A c \in Creations : c > cur => Fresh(c)  BY DEF IInv
  <2>2. cur \in Nat /\ cur' > cur  BY <1>1, <1>3 DEF TypeOK, Creations
  <2>3. Fresh(cur')  BY <1>3, <2>1, <2>2
  <2>. QED  BY <2>3 DEF Fresh, NextCreation
<1>5. NCalls(cur') \in Nat \ {0}  BY <1>1, <1>3, CallsOf
<1>6. TypeOK'  BY <1>1, <1>3, <1>5 DEF NextCreation, TypeOK, NCalls, Calls
<1>7. \A c \in Creations : c < cur' =>
        ret'[c] = "CEED_ERROR_SUCCESS" /\ requested'[c] = entry'[c] /\ Complete(c)'
  BY <1>1, <1>2, <1>3 DEF IInv, NextCreation, Complete, Calls, NCalls, TypeOK, Creations
<1>8. \A c \in Creations : c > cur' => Fresh(c)'
  BY <1>1, <1>3 DEF IInv, NextCreation, Fresh, TypeOK, Creations
<1>. QED  BY <1>4, <1>6, <1>7, <1>8 DEF IInv, NextCreation, Fresh

\* One Add call: a failure returns at once; a success declares the call's
\* field in its direction and, after the last call, returns success.
LEMMA AddFieldKeeps == IInv /\ AddField => IInv'
<1> SUFFICES ASSUME IInv, AddField PROVE IInv'  OBVIOUS
<1>. DEFINE call == Calls(cur)[k]
            last == k = NCalls(cur)
<1>1. /\ TypeOK /\ pc = "add"
      /\ requested[cur] = entry[cur]
      /\ k \in 1 .. NCalls(cur)
      /\ ret[cur] = "none"
      /\ InCallOrder(inputs[cur], Calls(cur), k - 1, "in")
      /\ InCallOrder(outputs[cur], Calls(cur), k - 1, "out")
  BY DEF IInv, AddField
<1>2. cur \in Creations /\ UNCHANGED <<entry, requested, cur>>  BY <1>1 DEF TypeOK, AddField
<1>3. /\ Calls(cur) \in Seq({"in", "out"} \X Fields)
      /\ NCalls(cur) \in Nat \ {0}
  BY <1>1, <1>2, CallsOf
<1>4. call[1] \in {"in", "out"} /\ call[2] \in Fields  BY <1>1, <1>3 DEF NCalls
<1>5. \A c \in Creations : c # cur =>
        /\ inputs'[c] = inputs[c] /\ outputs'[c] = outputs[c] /\ ret'[c] = ret[c]
  BY <1>1, <1>2 DEF AddField, TypeOK, Calls
\* The creations other than cur keep their part of the invariant.
<1>6. /\ \A c \in Creations : c < cur' =>
           ret'[c] = "CEED_ERROR_SUCCESS" /\ requested'[c] = entry'[c] /\ Complete(c)'
      /\ \A c \in Creations : c > cur' => Fresh(c)'
  <2>1. \A c \in Creations : c < cur =>
           ret[c] = "CEED_ERROR_SUCCESS" /\ requested[c] = entry[c] /\ Complete(c)
    BY DEF IInv
  <2>2. \A c \in Creations : c > cur => Fresh(c)  BY DEF IInv
  <2>. QED  BY <1>2, <1>5, <2>1, <2>2 DEF Complete, Fresh, Calls, NCalls, Creations
<1>7. CASE /\ pc' = "returned"
           /\ ret' = [ret EXCEPT ![cur] = "CEED_ERROR_MAJOR"]
           /\ UNCHANGED <<k, inputs, outputs>>
  <2>1. TypeOK'  BY <1>1, <1>2, <1>7 DEF TypeOK, RetCodes
  <2>2. ret'[cur] = "CEED_ERROR_MAJOR"  BY <1>1, <1>7 DEF TypeOK
  <2>. QED  BY <1>1, <1>2, <1>6, <1>7, <2>1, <2>2 DEF IInv
<1>8. CASE /\ inputs' = IF call[1] = "in"
                          THEN [inputs EXCEPT ![cur] = Append(@, call[2])] ELSE inputs
           /\ outputs' = IF call[1] = "out"
                           THEN [outputs EXCEPT ![cur] = Append(@, call[2])] ELSE outputs
           /\ pc' = IF last THEN "returned" ELSE "add"
           /\ k' = k + 1
           /\ ret' = IF last THEN [ret EXCEPT ![cur] = "CEED_ERROR_SUCCESS"] ELSE ret
  <2>1. inputs[cur] \in Seq(Fields) /\ outputs[cur] \in Seq(Fields)  BY <1>1, <1>2 DEF TypeOK
  <2>2. k - 1 \in Nat /\ (k - 1) + 1 = k  BY <1>1, <1>3
  \* cur's fields are those of its first k calls.
  <2>3. /\ InCallOrder(inputs'[cur], Calls(cur), k, "in")
        /\ InCallOrder(outputs'[cur], Calls(cur), k, "out")
    <3>1. CASE call[1] = "in"
      <4>1. InCallOrder(Append(inputs[cur], call[2]), Calls(cur), k, "in")
        BY <1>1, <1>4, <2>1, <2>2, <3>1, InCallOrderStep
      <4>2. InCallOrder(outputs[cur], Calls(cur), k, "out")
        BY <1>1, <2>1, <2>2, <3>1, InCallOrderStep
      <4>. QED  BY <1>1, <1>2, <1>8, <3>1, <4>1, <4>2 DEF TypeOK
    <3>2. CASE call[1] = "out"
      <4>1. InCallOrder(Append(outputs[cur], call[2]), Calls(cur), k, "out")
        BY <1>1, <1>4, <2>1, <2>2, <3>2, InCallOrderStep
      <4>2. InCallOrder(inputs[cur], Calls(cur), k, "in")
        BY <1>1, <2>1, <2>2, <3>2, InCallOrderStep
      <4>. QED  BY <1>1, <1>2, <1>8, <3>2, <4>1, <4>2 DEF TypeOK
    <3>. QED  BY <1>4, <3>1, <3>2
  <2>4. inputs' \in [Creations -> Seq(Fields)] /\ outputs' \in [Creations -> Seq(Fields)]
    BY <1>1, <1>4, <1>8 DEF TypeOK
  <2>5. TypeOK'
    BY <1>1, <1>2, <1>3, <1>8, <2>4 DEF TypeOK, RetCodes, NCalls, Calls
  <2>6. CASE last
    <3>1. pc' = "returned" /\ ret'[cur] = "CEED_ERROR_SUCCESS"  BY <1>1, <1>8, <2>6 DEF TypeOK
    <3>2. Complete(cur)'  BY <1>2, <2>3, <2>6 DEF Complete, Calls, NCalls
    <3>. QED  BY <1>1, <1>2, <1>6, <2>5, <3>1, <3>2 DEF IInv
  <2>7. CASE ~last
    <3>1. pc' = "add" /\ ret' = ret /\ k' \in 1 .. NCalls(cur)  BY <1>1, <1>3, <1>8, <2>7
    <3>2. /\ InCallOrder(inputs'[cur'], Calls(cur)', k' - 1, "in")
          /\ InCallOrder(outputs'[cur'], Calls(cur)', k' - 1, "out")
      BY <1>2, <1>8, <2>2, <2>3 DEF Calls
    <3>. QED  BY <1>1, <1>2, <1>6, <2>5, <3>1, <3>2 DEF IInv, Calls, NCalls
  <2>. QED  BY <2>6, <2>7
<1>. QED  BY <1>7, <1>8 DEF AddField, Calls, NCalls

LEMMA IInvNext == IInv /\ [Next]_vars => IInv'
<1> SUFFICES ASSUME IInv, [Next]_vars PROVE IInv'  OBVIOUS
<1>1. CASE CheckName  BY <1>1, CheckNameKeeps
<1>2. CASE AddField  BY <1>2, AddFieldKeeps
<1>3. CASE NextCreation  BY <1>3, NextCreationKeeps
<1>4. CASE UNCHANGED vars
  BY <1>4 DEF vars, IInv, TypeOK, Complete, Fresh, Calls, NCalls
<1>. QED  BY <1>1, <1>2, <1>3, <1>4 DEF Next

\* The inductive invariant gives what an init call leaves behind.
LEMMA IInvOutcome == IInv => InitOutcome
<1> SUFFICES ASSUME IInv, NEW c \in Creations, c < cur \/ (c = cur /\ pc = "returned")
             PROVE  /\ requested[c] # entry[c] =>
                         ret[c] = "CEED_ERROR_UNSUPPORTED" /\ inputs[c] = <<>> /\ outputs[c] = <<>>
                    /\ ret[c] = "CEED_ERROR_SUCCESS" =>
                         /\ requested[c] = entry[c]
                         /\ InCallOrder(inputs[c], Gallery[entry[c]], Len(Gallery[entry[c]]), "in")
                         /\ InCallOrder(outputs[c], Gallery[entry[c]], Len(Gallery[entry[c]]), "out")
  BY DEF InitOutcome
<1>1. CASE c < cur  BY <1>1 DEF IInv, Complete, Calls, NCalls
<1>2. CASE c = cur /\ pc = "returned"  BY <1>2 DEF IInv, Complete, Calls, NCalls
<1>. QED  BY <1>1, <1>2

\* Type correctness: the creation in progress is one of the caller's, the
\* Add-call index stays within its entry's calls, and every creation's
\* fields are a sequence of declared fields.
THEOREM TypeCorrect == Spec => []TypeOK
<1>1. IInv => TypeOK  BY DEF IInv
<1>. QED  BY <1>1, IInvInit, IInvNext, PTL DEF Spec

\* For every number of creations and every set of requested names, an
\* init call that returns has rejected a wrong name before adding any
\* field, and a successful one has declared exactly its entry's fields in
\* call order.
THEOREM InitOutcomeHolds == Spec => []InitOutcome
BY IInvInit, IInvNext, IInvOutcome, PTL DEF Spec

=============================================================================
