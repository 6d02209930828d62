---------------------------- MODULE QFunctionInit ----------------------------
(***************************************************************************)
(* Creating a gallery QFunction by name: the registry entry's init         *)
(* function (CeedQFunctionInit_Poisson3DBuild,                             *)
(* CeedQFunctionInit_Vector3Poisson1DApply) checks the requested name,     *)
(* then declares its fields one CeedQFunctionAddInput/AddOutput call at a  *)
(* time, each followed by CeedChk (return on error).                       *)
(*                                                                         *)
(* AddInput/AddOutput belong to the library interface: each appends one    *)
(* field or fails.                                                         *)
(***************************************************************************)
EXTENDS Integers, Sequences

CONSTANTS
  Requests,      \* names a caller may request an entry's init function under
  NumCreations   \* QFunctions the caller creates by name, one after another

ASSUME NumCreationsAssumption == NumCreations \in Nat \ {0}

Creations == 1 .. NumCreations

\* A field as declared: name, size (components) and evaluation mode.
Field(n, s, m) == [name |-> n, size |-> s, mode |-> m]

\* "in" or "out" with the field each Add call declares.
Poisson3DBuildFields ==
  LET dim == 3
  IN  <<<<"in", Field("dx", dim * dim, "GRAD")>>,
        <<"in", Field("weights", 1, "WEIGHT")>>,
        <<"out", Field("qdata", (dim * (dim + 1)) \div 2, "NONE")>>>>
Vector3Poisson1DApplyFields ==
  LET dim == 1
      num_comp == 3
  IN  <<<<"in", Field("du", num_comp * dim, "GRAD")>>,
        <<"in", Field("qdata", (dim * (dim + 1)) \div 2, "NONE")>>,
        <<"out", Field("dv", num_comp * dim, "GRAD")>>>>

\* CeedQFunctionRegister(name, ..., init): each file registers one entry,
\* a name with the calls its init function makes.
Poisson3DBuildEntry == <<"Poisson3DBuild", Poisson3DBuildFields>>
Vector3Poisson1DApplyEntry == <<"Vector3Poisson1DApply", Vector3Poisson1DApplyFields>>
Registry == {Poisson3DBuildEntry, Vector3Poisson1DApplyEntry}
Entries == {r[1] : r \in Registry}
\* The lookup of a registered name.
Gallery == [n \in Entries |-> (CHOOSE r \in Registry : r[1] = n)[2]]

VARIABLES
  entry,      \* entry[c]: the registry entry whose init creation c runs
  requested,  \* requested[c]: the name creation c asked for
  cur,        \* the creation in progress
  pc,         \* "check", "add" or "returned"
  k,          \* the index of the next Add call
  inputs,     \* inputs[c]: creation c's qf input fields so far
  outputs,    \* outputs[c]: its output fields so far
  ret         \* ret[c]: its init function's return code

vars == <<entry, requested, cur, pc, k, inputs, outputs, ret>>

Init ==
  /\ entry \in [Creations -> Entries]
  /\ requested \in [Creations -> Requests]
  /\ cur = 1
  /\ pc = "check"
  /\ k = 1
  /\ inputs = [c \in Creations |-> <<>>]
  /\ outputs = [c \in Creations |-> <<>>]
  /\ ret = [c \in Creations |-> "none"]

\* strcmp(name, requested) with the init function's own name.
NameMismatch(c) == requested[c] # entry[c]

\* Faulty variant: the mismatch is reported but not returned on.
CheckNameNoReturn ==
  /\ pc = "check"
  /\ pc' = "add"
  /\ ret' = IF NameMismatch(cur)
              THEN [ret EXCEPT ![cur] = "CEED_ERROR_UNSUPPORTED"] ELSE ret
  /\ UNCHANGED <<entry, requested, cur, k, inputs, outputs>>

\* if (strcmp(name, requested)) return CeedError(..UNSUPPORTED..).
CheckName ==
  /\ pc = "check"
  /\ IF NameMismatch(cur)
       THEN /\ pc' = "returned"
            /\ ret' = [ret EXCEPT ![cur] = "CEED_ERROR_UNSUPPORTED"]
       ELSE /\ pc' = "add"
            /\ UNCHANGED ret
  /\ UNCHANGED <<entry, requested, cur, k, inputs, outputs>>

\* ierr = CeedQFunctionAddInput/AddOutput(qf, ...); CeedChk(ierr);
\* the call appends the field or fails (the library's allocation of the
\* field); an error returns at once.  The gallery's field names are
\* distinct, so the library's DuplicateFieldName check never fires here.
AddField ==
  /\ pc = "add"
  /\ LET call == Gallery[entry[cur]][k]
         last == k = Len(Gallery[entry[cur]])
     IN  \/ /\ pc' = "returned"
            /\ ret' = [ret EXCEPT ![cur] = "CEED_ERROR_MAJOR"]
            /\ UNCHANGED <<k, inputs, outputs>>
         \/ /\ inputs' = IF call[1] = "in"
                           THEN [inputs EXCEPT ![cur] = Append(@, call[2])] ELSE inputs
            /\ outputs' = IF call[1] = "out"
                            THEN [outputs EXCEPT ![cur] = Append(@, call[2])] ELSE outputs
            /\ pc' = IF last THEN "returned" ELSE "add"
            /\ k' = k + 1
            /\ ret' = IF last THEN [ret EXCEPT ![cur] = "CEED_ERROR_SUCCESS"] ELSE ret
  /\ UNCHANGED <<entry, requested, cur>>

\* Faulty variant: the caller's loop runs one creation too far.
NextCreationUnbounded ==
  /\ pc = "returned"
  /\ ret[cur] = "CEED_ERROR_SUCCESS"
  /\ cur' = cur + 1
  /\ pc' = "check"
  /\ k' = 1
  /\ UNCHANGED <<entry, requested, inputs, outputs, ret>>

\* The caller's CeedChk on the creation: it goes on to the next creation
\* only after a success.
NextCreation ==
  /\ pc = "returned"
  /\ ret[cur] = "CEED_ERROR_SUCCESS"
  /\ cur < NumCreations
  /\ cur' = cur + 1
  /\ pc' = "check"
  /\ k' = 1
  /\ UNCHANGED <<entry, requested, inputs, outputs, ret>>

Next == CheckName \/ AddField \/ NextCreation

Spec == Init /\ [][Next]_vars

-----------------------------------------------------------------------------
RetCodes == {"none", "CEED_ERROR_SUCCESS", "CEED_ERROR_UNSUPPORTED", "CEED_ERROR_MAJOR"}
\* The CeedEvalMode values, and the names the gallery declares fields under.
EvalModes == {"NONE", "INTERP", "GRAD", "DIV", "CURL", "WEIGHT"}
FieldNames == {"dx", "weights", "qdata", "du", "dv"}
Fields == [name : FieldNames, size : Nat, mode : EvalModes]

\* The creation in progress is one of the caller's, and the index of the
\* next Add call stays within its entry's calls (one past the last once
\* every call has succeeded).
TypeOK ==
  /\ entry \in [Creations -> Entries]
  /\ requested \in [Creations -> Requests]
  /\ cur \in Creations
  /\ pc \in {"check", "add", "returned"}
  /\ k \in 1 .. Len(Gallery[entry[cur]]) + 1
  /\ inputs \in [Creations -> Seq(Fields)]
  /\ outputs \in [Creations -> Seq(Fields)]
  /\ ret \in [Creations -> RetCodes]

\* s lists, in call order, the fields of the calls among calls[1..n] in
\* direction dir: f numbers those calls in increasing order, and s[m] is
\* the field of call f[m].
InCallOrder(s, calls, n, dir) ==
  \E f \in [1 .. Len(s) -> 1 .. n] :
    /\ \A a, b \in 1 .. Len(s) : a < b => f[a] < f[b]
    /\ {f[m] : m \in 1 .. Len(s)} = {i \in 1 .. n : calls[i][1] = dir}
    /\ \A m \in 1 .. Len(s) : s[m] = calls[f[m]][2]

\* What an init call leaves behind: a requested name other than the
\* entry's is rejected with CEED_ERROR_UNSUPPORTED before any field is
\* added, and a successful call declares exactly the entry's fields in
\* their positional order (the order invocation buffers must follow).
InitOutcome ==
  \A c \in Creations : c < cur \/ (c = cur /\ pc = "returned") =>
    /\ requested[c] # entry[c] =>
         ret[c] = "CEED_ERROR_UNSUPPORTED" /\ inputs[c] = <<>> /\ outputs[c] = <<>>
    /\ ret[c] = "CEED_ERROR_SUCCESS" =>
         /\ requested[c] = entry[c]
         /\ InCallOrder(inputs[c], Gallery[entry[c]], Len(Gallery[entry[c]]), "in")
         /\ InCallOrder(outputs[c], Gallery[entry[c]], Len(Gallery[entry[c]]), "out")

\* The error design: errors are detected at registration and leave no
\* partially-built kernel behind.  An init call that returns an error has
\* declared no field on its QFunction.
NoPartiallyBuiltKernel ==
  \A c \in Creations :
    ret[c] \notin {"none", "CEED_ERROR_SUCCESS"} => inputs[c] = <<>> /\ outputs[c] = <<>>

=============================================================================
