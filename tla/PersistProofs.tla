---------------------------- MODULE PersistProofs ----------------------------
(***************************************************************************)
(* Persist for any number of names, classes, definitions, exports, imports  *)
(* and restarts.                                                            *)
(***************************************************************************)
EXTENDS Persist, FiniteSetTheorems, TLAPS

-----------------------------------------------------------------------------
(* Values *)

(* What the assumption says of names, and of a program. *)
LEMMA NameFacts == Internal \subseteq Names /\ Names \cap Classes = {}
BY PersistAssumption

(* What a program says is of its types. *)
LEMMA ProgramFacts ==
    ASSUME NEW p \in Programs
    PROVE  /\ p.defs \in Nat /\ p.imports \in Nat
           /\ p.texts \subseteq {"own", "stub", "other"}
           /\ p.shapes \subseteq {"def", "async", "lambda", "list", "alias", "method",
                                  "static", "taken", "proxy", "held", "unread", "heavy"}
BY PersistAssumption

(* Plain values and callables are told apart by `in'. *)
LEMMA ValueFacts ==
    ASSUME NEW v \in Values
    PROVE  /\ v.in \in {"itself", "list"} =>
                 /\ v \in [in : {"itself", "list"}, fn : CallableValues]
                 /\ v.fn \in CallableValues
           /\ v.in \notin {"itself", "list"} => v \in Plain
           /\ v \in Plain => v.in \notin {"itself", "list"}
BY DEF Values, Plain, None, Data, Proxy, Held, Unread, Heavy

(* Of a callable, the kind says which set it is from. *)
LEMMA CallableFacts ==
    ASSUME NEW fn \in CallableValues
    PROVE  /\ fn.code \in Nat /\ fn.text \in {"own", "stub", "other"}
           /\ fn.kind = "lambda" => fn \in LambdaValues /\ fn.key \in Nat
           /\ fn.kind = "method" => fn \in MethodValues
           /\ fn.kind \notin {"lambda", "method"} =>
                 /\ fn \in FunctionValues /\ fn.name \in Names
                 /\ fn.key \in Names \X Nat /\ fn.kind \in {"def", "async"}
BY DEF CallableValues, FunctionValues, LambdaValues, MethodValues

(* The values the actions bind. *)
LEMMA NewValues ==
    /\ None \in Values /\ Plain \subseteq Values
    /\ \A fn \in CallableValues : Direct(fn) \in Values /\ InList(fn) \in Values
    /\ \A fn \in FunctionValues \cup LambdaValues : Direct(fn) \in Values
BY DEF Values, Plain, Direct, InList, CallableValues

(* Export changes the key of a function and nothing else. *)
LEMMA UnkeyedFacts ==
    ASSUME NEW v \in Values
    PROVE  /\ Unkeyed(v) \in Values /\ Unkeyed(v).in = v.in
           /\ v.in \in {"itself", "list"} =>
                 /\ Unkeyed(v).fn.kind = v.fn.kind /\ Unkeyed(v).fn.name = v.fn.name
                 /\ Unkeyed(v).fn.code = v.fn.code /\ Unkeyed(v).fn.text = v.fn.text
                 /\ Unkeyed(v).fn.key = IF v.fn.kind \in {"def", "async"}
                                        THEN <<v.fn.name, 0>> ELSE v.fn.key
<1>1. CASE v.in \in {"itself", "list"} /\ v.fn.kind \in {"def", "async"}
  <2> DEFINE w == [v EXCEPT !.fn = [v.fn EXCEPT !.key = <<v.fn.name, 0>>]]
  <2>1. v \in [in : {"itself", "list"}, fn : CallableValues]
        /\ v.fn \in FunctionValues
    BY <1>1, ValueFacts, CallableFacts
  <2>2. Unkeyed(v) = w
    BY <1>1 DEF Unkeyed
  <2> DEFINE g == [v.fn EXCEPT !.key = <<v.fn.name, 0>>]
  <2>3. v.fn.name \in Names /\ <<v.fn.name, 0>> \in Names \X Nat
    BY <2>1 DEF FunctionValues
  <2>4. g \in FunctionValues /\ g.kind = v.fn.kind /\ g.name = v.fn.name /\ g.code = v.fn.code
        /\ g.text = v.fn.text /\ g.key = <<v.fn.name, 0>>
    BY <2>1, <2>3 DEF FunctionValues
  <2>5. w = [v EXCEPT !.fn = g]
    OBVIOUS
  <2> HIDE DEF g, w
  <2>6. w.fn = g /\ w.in = v.in /\ w \in Values
    BY <2>1, <2>4, <2>5 DEF Values, CallableValues
  <2> QED
    BY <1>1, <2>2, <2>4, <2>6
<1>2. CASE ~(v.in \in {"itself", "list"} /\ v.fn.kind \in {"def", "async"})
  BY <1>2 DEF Unkeyed
<1> QED
  BY <1>1, <1>2

-----------------------------------------------------------------------------
(* Types *)

(* A new interpreter has its types. *)
LEMMA TypeInit == Init => TypeOK
<1> SUFFICES ASSUME Init PROVE TypeOK
  OBVIOUS
<1>1. program \in Programs /\ program.defs \in Nat /\ program.imports \in Nat
  BY ProgramFacts DEF Init
<1>2. variables \in [Names -> Values] /\ classes \in ClassTables
  BY NewValues DEF Init, Unbound, NoClasses, NoClass, ClassTables
<1>3. defs \in 0..program.defs /\ imports \in 0..program.imports /\ next_id \in Nat \ {0}
  BY <1>1 DEF Init
<1>4. IsFiniteSet(DOMAIN lambda_bodies)
  BY FS_EmptySet DEF Init, Empty
<1> QED
  BY <1>1, <1>2, <1>3, <1>4 DEF Init, TypeOK

(* Types while the program runs. *)
LEMMA TypeRuns ==
    ASSUME TypeOK, UNCHANGED program,
           \/ \E n \in Names, t \in Texts :
                 \/ \E kind \in {"def", "async"} : eval_function_def(kind, n, t)
                 \/ eval_lambda_def(n, t)
           \/ \E c \in Classes : eval_class_def(c)
           \/ \E n \in Names, m \in Names : Alias(n, m) \/ PutInList(n, m)
           \/ \E n \in Names, c \in Classes, p \in Parts : TakeMethod(n, c, p)
           \/ \E n \in Names, v \in Plain : SetPlain(n, v)
           \/ NextRun \/ Restart
    PROVE  TypeOK'
<1>1. program \in Programs /\ program.defs \in Nat /\ program.imports \in Nat
      /\ Texts \subseteq {"own", "stub", "other"}
  BY ProgramFacts DEF TypeOK, Texts
<1>2. variables \in [Names -> Values] /\ classes \in ClassTables /\ next_id \in Nat \ {0}
      /\ defs \in 0..program.defs /\ defs \in Nat /\ IsFiniteSet(DOMAIN lambda_bodies)
  BY <1>1 DEF TypeOK
<1>3. Parts' = Parts /\ ClassTables' = ClassTables
  BY DEF Parts, Shapes, ClassTables
<1>4. ASSUME host' = host, variables' \in [Names -> Values], classes' \in ClassTables,
             IsFiniteSet(DOMAIN lambda_bodies'), next_id' \in Nat \ {0},
             defs' \in 0..program.defs
      PROVE  TypeOK'
  <2>1. blob' = blob /\ origin' = origin /\ outcome' = outcome /\ imports' = imports
    BY <1>4 DEF host
  <2>2. program' = program
    OBVIOUS
  <2>3. /\ program' \in Programs /\ variables' \in [Names -> Values] /\ classes' \in ClassTables'
        /\ next_id' \in Nat \ {0} /\ defs' \in 0..program'.defs /\ IsFiniteSet(DOMAIN lambda_bodies')
    BY <1>1, <1>3, <1>4, <2>2
  <2>4. imports' \in 0..program'.imports /\ outcome' \in {"none", "ok", "over", "error"}
    BY <2>1, <2>2 DEF TypeOK
  <2>5. /\ blob' \in {None} \cup [in : {"blob"}, intact : BOOLEAN,
                                  variables : [Names -> Values], classes : ClassTables']
        /\ origin' \in {None} \cup [in : {"state"}, variables : [Names -> Values],
                                    classes : ClassTables']
    BY <1>3, <2>1, Zenon DEF TypeOK
  <2> QED
    BY <2>3, <2>4, <2>5, Zenon DEF TypeOK
<1>5. ASSUME NEW n \in Names, NEW v \in Values, Bind(n, v)
      PROVE  variables' \in [Names -> Values]
  BY <1>2, <1>5 DEF Bind
<1>6. ASSUME NEW n \in Names, NEW t \in Texts, NEW kind \in {"def", "async"},
             eval_function_def(kind, n, t)
      PROVE  TypeOK'
  <2> DEFINE fn == [kind |-> kind, name |-> n, key |-> <<n, next_id>>, code |-> defs', text |-> t]
  <2>1. defs' \in 0..program.defs /\ defs' \in Nat /\ next_id' \in Nat \ {0}
    BY <1>1, <1>2, <1>6 DEF eval_function_def
  <2>2. fn \in FunctionValues
    BY <1>1, <1>2, <2>1 DEF FunctionValues
  <2>3. variables' \in [Names -> Values]
    BY <1>5, <1>6, <2>2, NewValues DEF eval_function_def
  <2> QED
    BY <1>2, <1>4, <1>6, <2>1, <2>3 DEF eval_function_def
<1>7. ASSUME NEW n \in Names, NEW t \in Texts, eval_lambda_def(n, t)
      PROVE  TypeOK'
  <2> DEFINE id == Cardinality(DOMAIN lambda_bodies)
             fn == [kind |-> "lambda", name |-> "<lambda>", key |-> id, code |-> defs', text |-> t]
  <2>1. defs' \in 0..program.defs /\ defs' \in Nat /\ next_id' = next_id /\ id \in Nat
    BY <1>1, <1>2, <1>7, FS_CardinalityType DEF eval_lambda_def
  <2>2. fn \in LambdaValues
    BY <1>1, <2>1 DEF LambdaValues
  <2>3. variables' \in [Names -> Values]
    BY <1>5, <1>7, <2>2, NewValues DEF eval_lambda_def
  <2>4. DOMAIN lambda_bodies' = DOMAIN lambda_bodies \cup {id}
    BY <1>7 DEF eval_lambda_def, Over
  <2>5. IsFiniteSet(DOMAIN lambda_bodies')
    BY <1>2, <2>4, FS_AddElement
  <2> QED
    BY <1>2, <1>4, <1>7, <2>1, <2>3, <2>5 DEF eval_lambda_def
<1>8. ASSUME NEW c \in Classes, eval_class_def(c) PROVE TypeOK'
  <2>1. defs' \in 0..program.defs /\ defs' \in Nat
    BY <1>1, <1>2, <1>8 DEF eval_class_def
  <2>2. classes' \in ClassTables
    BY <1>2, <1>8, <2>1 DEF eval_class_def, ClassTables
  <2> QED
    BY <1>2, <1>4, <1>8, <2>1, <2>2 DEF eval_class_def
<1>9. ASSUME NEW n \in Names, NEW m \in Names, Alias(n, m) \/ PutInList(n, m) PROVE TypeOK'
  <2>1. variables[m] \in Values
    BY <1>2
  <2>2. CASE Alias(n, m)
    BY <1>2, <1>4, <1>5, <2>1, <2>2 DEF Alias
  <2>3. CASE PutInList(n, m)
    <3>1. InList(variables[m].fn) \in Values
      BY <2>1, <2>3, ValueFacts, NewValues DEF PutInList
    <3> QED
      BY <1>2, <1>4, <1>5, <2>3, <3>1 DEF PutInList
  <2> QED
    BY <1>9, <2>2, <2>3
<1>13. ASSUME NEW n \in Names, NEW c \in Classes, NEW p \in Parts, TakeMethod(n, c, p)
       PROVE  TypeOK'
  <2> DEFINE fn == [kind |-> "method", name |-> c, key |-> PartKey(c, p),
                    code |-> classes[c][p], text |-> "own"]
  <2>1. classes[c][p] \in Nat
    BY <1>2 DEF ClassTables
  <2>2. fn \in CallableValues
    BY <2>1 DEF CallableValues, MethodValues, PartKey
  <2>3. Bind(n, Direct(fn)) /\ UNCHANGED <<classes, lambda_bodies, next_id, defs, host>>
    BY <1>13 DEF TakeMethod
  <2> HIDE DEF fn
  <2>4. variables' \in [Names -> Values]
    BY <1>5, <2>2, <2>3, NewValues
  <2> QED
    BY <1>2, <1>4, <2>3, <2>4
<1>10. ASSUME NEW n \in Names, NEW v \in Plain, SetPlain(n, v) PROVE TypeOK'
  BY <1>2, <1>4, <1>5, <1>10, NewValues DEF SetPlain
<1>11. CASE NextRun
  BY <1>2, <1>4, <1>11 DEF NextRun
<1>12. CASE Restart
  <2>1. variables' \in [Names -> Values] /\ classes' \in ClassTables /\ next_id' \in Nat \ {0}
    BY <1>12, NewValues DEF Restart, Unbound, NoClasses, NoClass, ClassTables
  <2>2. IsFiniteSet(DOMAIN lambda_bodies')
    BY <1>12, FS_EmptySet DEF Restart, Empty
  <2> QED
    BY <1>2, <1>4, <1>12, <2>1, <2>2 DEF Restart
<1> QED
  BY <1>6, <1>7, <1>8, <1>9, <1>10, <1>11, <1>12, <1>13

(* The bytes, once there are any. *)
LEMMA BlobFacts ==
    ASSUME TypeOK, blob # None
    PROVE  /\ blob \in [in : {"blob"}, intact : BOOLEAN,
                        variables : [Names -> Values], classes : ClassTables]
           /\ blob.variables \in [Names -> Values] /\ blob.classes \in ClassTables
           /\ \A n \in Names : blob.variables[n] \in Values
BY DEF TypeOK

(* What import caches for lambdas comes from the variables it read. *)
LEMMA LambdaBodiesFacts ==
    ASSUME NEW names \in SUBSET Names, NEW b \in LambdaBodies(names)
    PROVE  /\ DOMAIN b = {fnAt(n).key : n \in names} /\ IsFiniteSet(DOMAIN b)
           /\ \A k \in DOMAIN b : \E n \in names : fnAt(n).key = k /\ b[k] = Parsed(fnAt(n))
<1> DEFINE ids == {fnAt(n).key : n \in names}
           key == [n \in names |-> fnAt(n).key]
<1>1. /\ b \in [ids -> {Parsed(fnAt(n)) : n \in names}]
      /\ \A k \in ids : \E n \in names : fnAt(n).key = k /\ b[k] = Parsed(fnAt(n))
  BY DEF LambdaBodies
<1>2. DOMAIN b = ids
  BY <1>1
<1>3. IsFiniteSet(names)
  BY PersistAssumption, FS_Subset
<1>4. key \in Surjection(names, ids)
  BY DEF Surjection
<1>5. IsFiniteSet(ids)
  BY <1>3, <1>4, FS_Surjection
<1> QED
  BY <1>1, <1>2, <1>5

(* What is exported of a variable is a value. *)
LEMMA ExportedType ==
    ASSUME TypeOK, NEW n \in Names
    PROVE  Exported(n) \in Values
<1>1. variables[n] \in Values
  BY DEF TypeOK
<1> QED
  BY <1>1, UnkeyedFacts, NewValues DEF Exported

(* The steps of import, apart from whether it may be called. *)
LEMMA ImportFacts ==
    ASSUME TypeOK, import_state
    PROVE  /\ blob # None /\ imports < program.imports /\ imports' = imports + 1
           /\ outcome' \in {"ok", "over", "error"} /\ UNCHANGED <<next_id, defs, blob, origin>>
           /\ \/ outcome' = "error" /\ UNCHANGED interp /\ ~Valid
              \/ /\ Commit /\ Valid
                 /\ \E names \in SUBSET Imported({"lambda"}) :
                       lambda_bodies' \in LambdaBodies(names)
                 /\ outcome' = "error" => Broken # {}
                 /\ Broken = {} => outcome' = IF OverLimit THEN "over" ELSE "ok"
                 /\ outcome' = "over" => lambda_bodies' \in LambdaBodies(Imported({"lambda"}))
<1>1. Calling
  BY DEF import_state, ImportRejected, ImportDone, ImportStops
<1>2. CASE ImportRejected
  BY <1>1, <1>2 DEF ImportRejected, Calling, interp
<1>3. CASE ImportDone
  BY <1>1, <1>3 DEF ImportDone, Calling, Commit
<1>4. CASE ImportStops
  <2>1. PICK names \in SUBSET (Imported({"lambda"}) \ Broken) : lambda_bodies' \in LambdaBodies(names)
    BY <1>4 DEF ImportStops
  <2>2. names \in SUBSET Imported({"lambda"})
    OBVIOUS
  <2> QED
    BY <1>1, <1>4, <2>1, <2>2 DEF ImportStops, Calling, Commit
<1> QED
  BY <1>2, <1>3, <1>4 DEF import_state

(* Types through export and import. *)
LEMMA TypeHost ==
    ASSUME TypeOK, UNCHANGED program, export_state \/ Corrupt \/ import_state
    PROVE  TypeOK'
<1> DEFINE Blobs == [in : {"blob"}, intact : BOOLEAN,
                     variables : [Names -> Values], classes : ClassTables]
           Origins == [in : {"state"}, variables : [Names -> Values], classes : ClassTables]
<1>1. /\ program \in Programs /\ program.imports \in Nat
      /\ variables \in [Names -> Values] /\ classes \in ClassTables
      /\ IsFiniteSet(DOMAIN lambda_bodies)
      /\ next_id \in Nat \ {0} /\ defs \in 0..program.defs /\ imports \in 0..program.imports
      /\ outcome \in {"none", "ok", "over", "error"}
      /\ blob \in {None} \cup Blobs /\ origin \in {None} \cup Origins
  BY ProgramFacts DEF TypeOK
<1>2. ClassTables' = ClassTables
  BY DEF Parts, Shapes, ClassTables
<1> HIDE DEF Blobs, Origins
<1>3. ASSUME /\ variables' \in [Names -> Values] /\ classes' \in ClassTables
             /\ IsFiniteSet(DOMAIN lambda_bodies')
             /\ next_id' = next_id /\ defs' = defs /\ imports' \in 0..program.imports
             /\ outcome' \in {"none", "ok", "over", "error"}
             /\ blob' \in {None} \cup Blobs /\ origin' \in {None} \cup Origins
      PROVE  TypeOK'
  BY <1>1, <1>2, <1>3, Zenon DEF TypeOK, Blobs, Origins
<1>4. CASE export_state
  <2>1. [n \in Names |-> Exported(n)] \in [Names -> Values]
    BY ExportedType
  <2>2. blob' \in {None} \cup Blobs /\ origin' \in {None} \cup Origins
    <3>1. CASE Writable
      <4>1. /\ blob' = [in |-> "blob", intact |-> TRUE,
                       variables |-> [n \in Names |-> Exported(n)], classes |-> classes]
            /\ origin' = [in |-> "state", variables |-> variables, classes |-> classes]
        BY <1>4, <3>1 DEF export_state
      <4>2. blob' \in Blobs /\ origin' \in Origins
        BY <1>1, <2>1, <4>1 DEF Blobs, Origins
      <4> QED
        BY <4>2
    <3>2. CASE ~Writable
      BY <1>4, <3>2 DEF export_state
    <3> QED
      BY <3>1, <3>2
  <2> QED
    BY <1>1, <1>3, <1>4, <2>2 DEF export_state, interp
<1>5. CASE Corrupt
  <2>1. blob' \in Blobs
    BY <1>1, <1>5 DEF Corrupt, Blobs
  <2> QED
    BY <1>1, <1>3, <1>5, <2>1 DEF Corrupt, interp
<1>6. CASE import_state
  <2>1. /\ blob # None /\ imports < program.imports /\ imports' = imports + 1
        /\ outcome' \in {"ok", "over", "error"} /\ UNCHANGED <<next_id, defs, blob, origin>>
    BY <1>6, ImportFacts
  <2>2. imports' \in 0..program.imports
    BY <1>1, <2>1
  <2>3. /\ variables' \in [Names -> Values] /\ classes' \in ClassTables
        /\ IsFiniteSet(DOMAIN lambda_bodies')
    <3>1. CASE UNCHANGED interp
      BY <1>1, <3>1 DEF interp
    <3>2. CASE Commit /\ \E names \in SUBSET Imported({"lambda"}) :
                            lambda_bodies' \in LambdaBodies(names)
      <4>1. Imported({"lambda"}) \subseteq Names
        BY DEF Imported
      <4>2. IsFiniteSet(DOMAIN lambda_bodies')
        BY <3>2, <4>1, LambdaBodiesFacts
      <4> QED
        BY <2>1, <3>2, <4>2, BlobFacts DEF Commit
    <3> QED
      BY <1>6, <3>1, <3>2, ImportFacts
  <2> QED
    BY <1>1, <1>3, <2>1, <2>2, <2>3
<1> QED
  BY <1>4, <1>5, <1>6

(* Types through every step. *)
LEMMA TypeNext == TypeOK /\ [Next]_vars => TypeOK'
<1> SUFFICES ASSUME TypeOK, [Next]_vars PROVE TypeOK'
  OBVIOUS
<1>1. CASE UNCHANGED vars
  <2>1. UNCHANGED <<program, variables, classes, lambda_bodies, next_id, defs, imports, outcome,
                    blob, origin>>
    BY <1>1 DEF vars, interp
  <2>2. ClassTables' = ClassTables
    BY <2>1 DEF Parts, Shapes, ClassTables
  <2> QED
    BY <2>1, <2>2, Zenon DEF TypeOK
<1>2. CASE Next
  BY <1>2, TypeRuns, TypeHost DEF Next
<1> QED
  BY <1>1, <1>2

(* Variables, classes, caches and exported bytes keep their types. *)
THEOREM TypeCorrect == Spec => []TypeOK
BY TypeInit, TypeNext, PTL DEF Spec

-----------------------------------------------------------------------------
(* Imports *)

(* Only import_state imports. *)
LEMMA ImportingStep ==
    ASSUME TypeOK, [Next]_vars, Imports
    PROVE  import_state /\ UNCHANGED program
<1>1. imports \in Nat
  BY ProgramFacts DEF TypeOK
<1>2. imports' # imports
  BY <1>1 DEF Imports
<1>3. Next
  BY <1>2 DEF vars
<1>4. host' # host
  BY <1>2 DEF host
<1> QED
  BY <1>2, <1>3, <1>4
     DEF Next, eval_function_def, eval_lambda_def, eval_class_def, Alias, PutInList, SetPlain,
         TakeMethod, NextRun, Restart, export_state, Corrupt

(* An import changes nothing, or everything there is afterwards comes from  *)
(* the imported bytes; one that fails on anything but a lambda or the limit *)
(* of memory changes nothing, and one that fails on the limit is complete.  *)
(* For every program and every number of imports and of exports of damaged  *)
(* bytes (import_state).                                                    *)
THEOREM ImportsNeverMix == Spec => NeverMixed
<1> DEFINE A == Imports =>
         /\ outcome' = "error" /\ (blob.intact => Broken = {}) => UNCHANGED interp
         /\ outcome' = "over" =>
               variables' = blob.variables /\ DOMAIN lambda_bodies' = LambdaKeys
         /\ \/ UNCHANGED interp
            \/ /\ variables' = blob.variables /\ classes' = blob.classes
               /\ \A k \in DOMAIN function_bodies' : k[2] = 0
               /\ \A k \in DOMAIN lambda_bodies' : \E n \in Imported({"lambda"}) :
                     fnAt(n).key = k /\ Parsed(fnAt(n)) = lambda_bodies'[k]
<1>1. ASSUME TypeOK, [Next]_vars, Imports PROVE A
  <2>1. import_state
    BY <1>1, ImportingStep
  <2>2. CASE outcome' = "error" /\ UNCHANGED interp
    BY <2>2
  <2>3. CASE /\ Commit /\ Valid
             /\ \E names \in SUBSET Imported({"lambda"}) : lambda_bodies' \in LambdaBodies(names)
             /\ outcome' = "error" => Broken # {}
             /\ outcome' = "over" => lambda_bodies' \in LambdaBodies(Imported({"lambda"}))
    <3>1. PICK names \in SUBSET Imported({"lambda"}) : lambda_bodies' \in LambdaBodies(names)
      BY <2>3
    <3>2. names \in SUBSET Names
      BY DEF Imported
    <3>3. \A k \in DOMAIN lambda_bodies' : \E n \in Imported({"lambda"}) :
             fnAt(n).key = k /\ Parsed(fnAt(n)) = lambda_bodies'[k]
      BY <3>1, <3>2, LambdaBodiesFacts
    <3>4. \A k \in DOMAIN function_bodies' : k[2] = 0
      <4>1. DOMAIN function_bodies' = DOMAIN ParsedMethods \cup {<<n, 0>> : n \in Imported({"def"})}
        BY <2>3 DEF Commit, Over
      <4>2. \A k \in DOMAIN ParsedMethods : k[2] = 0
        BY DEF ParsedMethods, PartKey
      <4> QED
        BY <4>1, <4>2
    <3>5. blob.intact
      BY <2>3 DEF Valid
    <3>6. outcome' = "over" => DOMAIN lambda_bodies' = LambdaKeys
      <4>1. Imported({"lambda"}) \in SUBSET Names
        BY DEF Imported
      <4> QED
        BY <2>3, <4>1, LambdaBodiesFacts DEF LambdaKeys
    <3> QED
      BY <2>3, <3>3, <3>4, <3>5, <3>6 DEF Commit
  <2> QED
    BY <1>1, <2>1, <2>2, <2>3, ImportFacts
<1>2. TypeOK /\ [Next]_vars => [A]_vars
  BY <1>1
<1> QED
  BY <1>2, TypeCorrect, PTL DEF Spec, NeverMixed

-----------------------------------------------------------------------------
(* Round trips *)

(* A function in a variable is a def of the variable's name, as import asks. *)
Named(vs) ==
    \A n \in Names : vs[n].in = "itself" /\ vs[n].fn.kind # "lambda" =>
        vs[n].fn.kind = "def" /\ vs[n].fn.name = n

(* The bytes hold what the exporting interpreter held. *)
Faithful(b, o) ==
    b # None =>
      /\ o # None /\ b.classes = o.classes /\ Named(b.variables)
      /\ b.variables = [n \in Names |-> IF n \in Internal \/ o.variables[n] = Proxy
                                        THEN None ELSE Unkeyed(o.variables[n])]
      /\ \A n \in Names : b.variables[n] # Held

TripInv == program.imports = 0 \/ (Named(variables) /\ Faithful(blob, origin))

(* The programs whose states survive: what they export holds no function    *)
(* under another name, no method and no async def, which import refuses.    *)
Resumable(p) == p.imports = 0 \/ p.shapes \cap {"alias", "async", "taken"} = {}

(* Exporting keeps names and kinds. *)
LEMMA NamedExport ==
    ASSUME TypeOK, Named(variables)
    PROVE  Named([n \in Names |-> Exported(n)])
<1> SUFFICES ASSUME NEW n \in Names, Exported(n).in = "itself", Exported(n).fn.kind # "lambda"
             PROVE  Exported(n).fn.kind = "def" /\ Exported(n).fn.name = n
  BY DEF Named
<1>1. variables[n] \in Values
  BY DEF TypeOK
<1>2. Exported(n) = Unkeyed(variables[n])
  BY DEF Exported, None
<1>3. Unkeyed(variables[n]).in = variables[n].in
  BY <1>1, UnkeyedFacts, Zenon
<1>4. variables[n].in \in {"itself", "list"}
  BY <1>2, <1>3
<1>5. /\ Unkeyed(variables[n]).fn.kind = variables[n].fn.kind
      /\ Unkeyed(variables[n]).fn.name = variables[n].fn.name
  BY <1>1, <1>4, UnkeyedFacts, Zenon
<1>6. /\ variables[n].in = "itself"
      /\ Exported(n).fn.kind = variables[n].fn.kind /\ Exported(n).fn.name = variables[n].fn.name
  BY <1>2, <1>3, <1>5
<1> QED
  BY <1>6 DEF Named

(* Binding keeps names, if what is bound is the name's. *)
LEMMA NamedBind ==
    ASSUME TypeOK, Named(variables), NEW n \in Names, NEW v, Bind(n, v),
           v.in = "itself" /\ v.fn.kind # "lambda" => v.fn.kind = "def" /\ v.fn.name = n
    PROVE  Named(variables')
<1>1. variables' = [variables EXCEPT ![n] = v] /\ variables \in [Names -> Values]
  BY DEF Bind, TypeOK
<1>2. \A k \in Names : variables'[k] = IF k = n THEN v ELSE variables[k]
  BY <1>1
<1> QED
  BY <1>2 DEF Named

(* Exported states stay faithful through every step. *)
LEMMA TripNext ==
    ASSUME \A p \in Programs : Resumable(p)
    PROVE  TypeOK /\ TripInv /\ [Next]_vars => TripInv'
<1> SUFFICES ASSUME TypeOK, TripInv, [Next]_vars PROVE TripInv'
  OBVIOUS
<1>1. program' = program
  BY DEF Next, vars
<1>2. CASE program.imports = 0
  BY <1>1, <1>2 DEF TripInv
<1>3. CASE program.imports # 0
  <2>1. Named(variables) /\ Faithful(blob, origin) /\ Shapes \cap {"alias", "async", "taken"} = {}
    BY <1>3 DEF TripInv, TypeOK, Resumable, Shapes
  <2> SUFFICES Named(variables') /\ Faithful(blob', origin')
    BY DEF TripInv
  <2>2. CASE UNCHANGED vars
    BY <2>1, <2>2 DEF vars, interp
  <2>3. ASSUME NEW n \in Names, NEW t \in Texts, NEW kind \in {"def", "async"},
               eval_function_def(kind, n, t)
        PROVE  Named(variables') /\ Faithful(blob', origin')
    <3> DEFINE fn == [kind |-> kind, name |-> n, key |-> <<n, next_id>>, code |-> defs', text |-> t]
    <3>1. kind = "def" /\ Bind(n, Direct(fn)) /\ UNCHANGED host
      BY <2>1, <2>3 DEF eval_function_def
    <3>2. Direct(fn).fn.kind = "def" /\ Direct(fn).fn.name = n
      BY <3>1 DEF Direct
    <3>3. Named(variables')
      BY <2>1, <3>1, <3>2, NamedBind
    <3> QED
      BY <2>1, <3>1, <3>3 DEF host
  <2>4. ASSUME NEW n \in Names, NEW t \in Texts, eval_lambda_def(n, t)
        PROVE  Named(variables') /\ Faithful(blob', origin')
    <3> DEFINE fn == [kind |-> "lambda", name |-> "<lambda>",
                      key |-> Cardinality(DOMAIN lambda_bodies), code |-> defs', text |-> t]
    <3>1. Bind(n, Direct(fn)) /\ UNCHANGED host
      BY <2>4 DEF eval_lambda_def
    <3>2. Direct(fn).fn.kind = "lambda"
      BY DEF Direct
    <3>3. Named(variables')
      BY <2>1, <3>1, <3>2, NamedBind
    <3> QED
      BY <2>1, <3>1, <3>3 DEF host
  <2>5. ASSUME NEW n \in Names, NEW m \in Names, Alias(n, m) \/ PutInList(n, m)
        PROVE  Named(variables') /\ Faithful(blob', origin')
    <3>1. PutInList(n, m)
      BY <2>1, <2>5 DEF Alias
    <3>2. Bind(n, InList(variables[m].fn)) /\ UNCHANGED host
      BY <3>1 DEF PutInList
    <3>3. InList(variables[m].fn).in = "list"
      BY DEF InList
    <3>4. Named(variables')
      BY <2>1, <3>2, <3>3, NamedBind
    <3> QED
      BY <2>1, <3>2, <3>4 DEF host
  <2>6. ASSUME NEW n \in Names, NEW v \in Plain, SetPlain(n, v)
        PROVE  Named(variables') /\ Faithful(blob', origin')
    <3>1. Bind(n, v) /\ UNCHANGED host /\ v.in # "itself"
      BY <2>6 DEF SetPlain, Plain, None, Data, Proxy, Held, Unread, Heavy
    <3>2. Named(variables')
      BY <2>1, <3>1, NamedBind
    <3> QED
      BY <2>1, <3>1, <3>2 DEF host
  <2>7. CASE (\E c \in Classes : eval_class_def(c)) \/ NextRun
    BY <2>1, <2>7 DEF eval_class_def, NextRun, host
  <2>12. CASE \E n \in Names, c \in Classes, p \in Parts : TakeMethod(n, c, p)
    BY <2>1, <2>12 DEF TakeMethod
  <2>8. CASE Restart
    <3>1. Named(variables')
      BY <2>8 DEF Restart, Unbound, None, Named
    <3> QED
      BY <2>1, <2>8, <3>1 DEF Restart, host
  <2>9. CASE export_state
    <3> DEFINE ex == [n \in Names |-> Exported(n)]
    <3>1. Named(ex)
      BY <2>1, NamedExport
    <3>2. ex = [n \in Names |-> IF n \in Internal \/ variables[n] = Proxy
                                THEN None ELSE Unkeyed(variables[n])]
      BY DEF Exported
    <3>5. variables' = variables
      BY <2>9 DEF export_state, interp
    <3>6. CASE ~Writable
      <4>1. blob' = None
        BY <2>9, <3>6 DEF export_state
      <4> QED
        BY <2>1, <3>5, <4>1 DEF Faithful
    <3>7. CASE Writable
      <4>1. /\ blob' = [in |-> "blob", intact |-> TRUE, variables |-> ex, classes |-> classes]
            /\ origin' = [in |-> "state", variables |-> variables, classes |-> classes]
        BY <2>9, <3>7 DEF export_state
      <4>2. \A n \in Names : ex[n] # Held
        BY <3>7 DEF Writable
      <4> HIDE DEF ex
      <4>3. /\ blob'.variables = ex /\ blob'.classes = classes
            /\ origin'.variables = variables /\ origin'.classes = classes /\ origin' # None
        BY <4>1 DEF None
      <4> QED
        BY <2>1, <3>1, <3>2, <3>5, <4>2, <4>3, Zenon DEF Faithful
    <3> QED
      BY <3>6, <3>7
  <2>10. CASE Corrupt
    <3>1. blob # None /\ blob' = [blob EXCEPT !.intact = FALSE] /\ origin' = origin
          /\ variables' = variables
      BY <2>10 DEF Corrupt, interp
    <3>2. blob \in [in : {"blob"}, intact : BOOLEAN,
                    variables : [Names -> Values], classes : ClassTables]
      BY <3>1, BlobFacts
    <3>3. blob'.variables = blob.variables /\ blob'.classes = blob.classes
      BY <3>1, <3>2
    <3> QED
      BY <2>1, <3>1, <3>3, Zenon DEF Faithful
  <2>11. CASE import_state
    <3>1. blob # None /\ blob' = blob /\ origin' = origin
      BY <2>11, ImportFacts
    <3>2. variables' = variables \/ variables' = blob.variables
      BY <2>11, ImportFacts DEF interp, Commit
    <3> QED
      BY <2>1, <3>1, <3>2 DEF Faithful
  <2> QED
    BY <2>2, <2>3, <2>4, <2>5, <2>6, <2>7, <2>8, <2>9, <2>10, <2>11, <2>12 DEF Next
<1> QED
  BY <1>2, <1>3

(* An import of bytes that arrived as exported, whose definitions carry     *)
(* their own texts and whose data JSON gives back, gives back the exporting  *)
(* interpreter's variables and classes, and fails only if they are over the  *)
(* limit of memory, for every program that binds functions to their own     *)
(* names and defines no async function at module level (import parses a     *)
(* variable's function as a def of that name).                              *)
THEOREM StatesRoundTrip ==
    ASSUME \A p \in Programs : Resumable(p)
    PROVE  Spec => RoundTrips
<1> DEFINE A == Imports /\ blob.intact /\ OwnTexts /\ (\A n \in Names : Saved(n) # Unread) =>
         /\ outcome' = IF \E n \in Names : Saved(n) = Heavy THEN "over" ELSE "ok"
         /\ variables' = [n \in Names |-> Saved(n)]
         /\ classes' = origin.classes
         /\ \A n \in Names : Saved(n) # Held
<1>1. Init => TripInv
  BY DEF Init, TripInv, Named, Faithful, Unbound, None
<1>2. ASSUME TypeOK, TripInv, [Next]_vars, Imports, blob.intact, OwnTexts,
             \A n \in Names : Saved(n) # Unread
      PROVE  /\ outcome' = IF \E n \in Names : Saved(n) = Heavy THEN "over" ELSE "ok"
             /\ variables' = [n \in Names |-> Saved(n)]
             /\ classes' = origin.classes
             /\ \A n \in Names : Saved(n) # Held
  <2>1. import_state
    BY <1>2, ImportingStep
  <2>2. blob # None /\ program.imports # 0
    <3>1. blob # None /\ imports < program.imports
      BY <1>2, <2>1, ImportFacts
    <3>2. imports \in Nat /\ program.imports \in Nat
      BY <1>2, ProgramFacts DEF TypeOK
    <3> QED
      BY <3>1, <3>2
  <2>3. /\ Named(blob.variables) /\ blob.classes = origin.classes
        /\ blob.variables = [n \in Names |-> Saved(n)]
        /\ \A n \in Names : blob.variables[n] # Held
    BY <1>2, <2>2, Zenon DEF TripInv, Faithful, Saved
  <2>4. \A n \in Names : blob.variables[n].in = "itself" => fnAt(n).text = "own"
    BY <1>2 DEF OwnTexts, Callables, fnAt
  <2>7. \A n \in Names : blob.variables[n] = Saved(n)
    BY <2>3
  <2>8. Valid
    <3>1. \A n \in Imported({"def", "async", "method"}) :
             fnAt(n).kind = "def" /\ fnAt(n).text # "other" /\ fnAt(n).name = n
      BY <2>3, <2>4 DEF Imported, Named, fnAt
    <3> QED
      BY <1>2, <2>7, <3>1 DEF Valid
  <2>5. Broken = {}
    BY <2>4 DEF Broken, Imported, fnAt
  <2>9. Commit /\ outcome' = IF OverLimit THEN "over" ELSE "ok"
    BY <1>2, <2>1, <2>5, <2>8, ImportFacts
  <2>10. OverLimit <=> \E n \in Names : Saved(n) = Heavy
    BY <2>7 DEF OverLimit
  <2> QED
    BY <2>3, <2>7, <2>9, <2>10 DEF Commit
<1>3. TypeOK /\ TripInv /\ [Next]_vars => [A]_vars
  BY <1>2
<1>4. TypeOK /\ TripInv /\ [Next]_vars => TripInv'
  BY TripNext
<1> QED
  BY <1>1, <1>3, <1>4, TypeCorrect, PTL DEF Spec, RoundTrips

-----------------------------------------------------------------------------
(* Bodies *)

(* A callable's key is in its cache, with its code, and that of a method     *)
(* is its class's; the numbers in keys of functions next_id has passed.     *)
Backed(fn, fb, lb, id) ==
    IF fn.kind = "lambda"
    THEN fn.key \in DOMAIN lb /\ lb[fn.key] = fn.code
    ELSE IF fn.kind = "method"
    THEN fn.name \in Classes /\ \E p \in Parts : fn.key = PartKey(fn.name, p)
    ELSE fn.key \in DOMAIN fb /\ fb[fn.key] = fn.code /\ fn.key[2] < id

AllBacked(vs, fb, lb, id) ==
    \A n \in Names : vs[n].in \in {"itself", "list"} => Backed(vs[n].fn, fb, lb, id)

ClassesBacked(cl, fb) ==
    \A c \in Classes, p \in Parts : cl[c][p] = Lookup(fb, PartKey(c, p))

(* The keys of lambdas are 0, 1, 2, ..., so that their number is a new one. *)
Dense(lb) == \E m \in Nat : DOMAIN lb = 0 .. (m - 1)

(* What import can give its body back: a function in a variable, with a     *)
(* text that is its own or does not parse.                                 *)
Rebuildable(vs) ==
    \A n \in Names :
        /\ vs[n].in # "list"
        /\ vs[n].in = "itself" => vs[n].fn.kind # "lambda" /\ vs[n].fn.text # "stub"

(* The key of a function that was exported. *)
KeyedByName(fn) == fn.kind \in {"def", "async"} => fn.key = <<fn.name, 0>>

BodyInv ==
    /\ AllBacked(variables, function_bodies, lambda_bodies, next_id)
    /\ ClassesBacked(classes, function_bodies) /\ Dense(lambda_bodies)
    /\ program.imports # 0 =>
         /\ Rebuildable(variables)
         /\ blob # None =>
              /\ Rebuildable(blob.variables)
              /\ \A n \in Names : blob.variables[n].in = "itself" =>
                    KeyedByName(blob.variables[n].fn)

(* The programs that keep their bodies.  One that is imported into has no   *)
(* lambdas (an imported lambda's key can be given away again), no callables *)
(* in containers and no static methods (import does not cache those), and   *)
(* no function whose text parses to another body.                          *)
KeepsBodies(p) ==
    p.imports = 0 \/ (p.shapes \cap {"lambda", "list", "static"} = {} /\ "stub" \notin p.texts)

(* What a cache holds after something is put into it. *)
Grown(after, cache, new) ==
    /\ DOMAIN after = DOMAIN cache \cup DOMAIN new
    /\ \A k \in DOMAIN new : after[k] = new[k]
    /\ \A k \in DOMAIN cache \ DOMAIN new : after[k] = cache[k]
    /\ \A k : k \notin DOMAIN new => Lookup(after, k) = Lookup(cache, k)
    /\ \A k \in DOMAIN new : Lookup(after, k) = new[k]

(* What a cache with new entries answers. *)
LEMMA OverFacts ==
    ASSUME NEW cache, NEW new
    PROVE  Grown(Over(cache, new), cache, new)
BY DEF Over, Lookup, Grown

(* Callables stay backed by caches that only grow. *)
LEMMA BackedBind ==
    ASSUME TypeOK, AllBacked(variables, function_bodies, lambda_bodies, next_id),
           NEW fb, NEW lb, NEW id, NEW n \in Names, NEW v, Bind(n, v),
           v.in \in {"itself", "list"} => Backed(v.fn, fb, lb, id),
           \A fn \in CallableValues :
               Backed(fn, function_bodies, lambda_bodies, next_id) => Backed(fn, fb, lb, id)
    PROVE  AllBacked(variables', fb, lb, id)
<1>1. variables' = [variables EXCEPT ![n] = v] /\ variables \in [Names -> Values]
  BY DEF Bind, TypeOK
<1>2. \A k \in Names : variables'[k] = IF k = n THEN v ELSE variables[k]
  BY <1>1
<1>3. \A k \in Names : variables[k].in \in {"itself", "list"} =>
          variables[k].fn \in CallableValues
  BY <1>1, ValueFacts
<1> SUFFICES ASSUME NEW k \in Names, variables'[k].in \in {"itself", "list"}
             PROVE  Backed(variables'[k].fn, fb, lb, id)
  BY DEF AllBacked
<1>4. CASE k = n
  BY <1>2, <1>4
<1>5. CASE k # n
  BY <1>2, <1>3, <1>5, Zenon DEF AllBacked
<1> QED
  BY <1>4, <1>5

(* Keys of functions and of classes are kept apart by the names in them. *)
LEMMA KeysApart ==
    ASSUME NEW c \in Classes, NEW p \in {"method", "static"}, NEW k \in Names \X Nat
    PROVE  PartKey(c, p) # k
<1>1. PartKey(c, p)[1] = c /\ k[1] \in Names
  BY DEF PartKey
<1> QED
  BY <1>1, NameFacts

(* Keys of methods tell the classes and the kinds of methods apart. *)
LEMMA PartKeys ==
    ASSUME NEW c \in Classes, NEW d \in Classes, NEW p \in {"method", "static"},
           NEW q \in {"method", "static"}, PartKey(c, p) = PartKey(d, q)
    PROVE  c = d /\ p = q
BY DEF PartKey

(* The bodies through each definition. *)
LEMMA BodyDefs ==
    ASSUME TypeOK, BodyInv, UNCHANGED program, KeepsBodies(program),
           \/ \E n \in Names, t \in Texts :
                 \/ \E kind \in {"def", "async"} : eval_function_def(kind, n, t)
                 \/ eval_lambda_def(n, t)
           \/ \E c \in Classes : eval_class_def(c)
    PROVE  BodyInv'
<1>1. /\ AllBacked(variables, function_bodies, lambda_bodies, next_id)
      /\ ClassesBacked(classes, function_bodies) /\ Dense(lambda_bodies)
  BY DEF BodyInv
<1>2. Parts' = Parts /\ Parts \subseteq {"method", "static"}
  BY DEF Parts, Shapes
<1>3. variables \in [Names -> Values] /\ next_id \in Nat /\ IsFiniteSet(DOMAIN lambda_bodies)
      /\ \A n \in Names : variables[n] \in Values
  BY DEF TypeOK
<1>4. ASSUME host' = host, AllBacked(variables', function_bodies', lambda_bodies', next_id'),
             ClassesBacked(classes', function_bodies'), Dense(lambda_bodies'),
             program.imports # 0 => Rebuildable(variables')
      PROVE  BodyInv'
  <2>1. blob' = blob /\ program' = program
    BY <1>4 DEF host
  <2>2. ClassesBacked(classes, function_bodies)'
    BY <1>2, <1>4 DEF ClassesBacked
  <2>3. AllBacked(variables, function_bodies, lambda_bodies, next_id)'
    BY <1>2, <1>4 DEF AllBacked, Backed
  <2> QED
    BY <1>4, <2>1, <2>2, <2>3, Zenon DEF BodyInv
<1>5. ASSUME NEW n \in Names, NEW v, Bind(n, v), program.imports # 0,
             v.in # "list", v.in = "itself" => v.fn.kind # "lambda" /\ v.fn.text # "stub"
      PROVE  Rebuildable(variables')
  <2>1. \A k \in Names : variables'[k] = IF k = n THEN v ELSE variables[k]
    BY <1>3, <1>5 DEF Bind
  <2>2. Rebuildable(variables)
    BY <1>5 DEF BodyInv
  <2> QED
    BY <1>5, <2>1, <2>2 DEF Rebuildable
<1>6. program.imports # 0 => "lambda" \notin Shapes /\ "list" \notin Shapes /\ "stub" \notin Texts
  BY DEF KeepsBodies, Shapes, Texts
<1>7. ASSUME NEW n \in Names, NEW t \in Texts, NEW kind \in {"def", "async"},
             eval_function_def(kind, n, t)
      PROVE  BodyInv'
  <2> DEFINE fn == [kind |-> kind, name |-> n, key |-> <<n, next_id>>, code |-> defs', text |-> t]
             new == [k \in {<<n, next_id>>} |-> defs']
  <2>1. /\ function_bodies' = Over(function_bodies, new) /\ next_id' = next_id + 1
        /\ Bind(n, Direct(fn)) /\ UNCHANGED <<classes, lambda_bodies, older, host>>
    BY <1>7 DEF eval_function_def
  <2>2. DOMAIN new = {<<n, next_id>>} /\ new[<<n, next_id>>] = defs'
    OBVIOUS
  <2>3. /\ fn.kind \notin {"lambda", "method"} /\ fn.key = <<n, next_id>> /\ fn.code = defs' /\ fn.text = t
        /\ Direct(fn).fn = fn /\ Direct(fn).in = "itself"
    BY DEF Direct
  <2> HIDE DEF fn, new
  <2>9. Grown(function_bodies', function_bodies, new)
    BY <2>1, OverFacts
  <2>4. Backed(fn, function_bodies', lambda_bodies', next_id')
    BY <1>3, <2>1, <2>2, <2>3, <2>9 DEF Backed, Grown
  <2>5. ASSUME NEW g \in CallableValues,
               Backed(g, function_bodies, lambda_bodies, next_id)
        PROVE  Backed(g, function_bodies', lambda_bodies', next_id')
    <3>1. CASE g.kind = "lambda"
      BY <2>1, <2>5, <3>1 DEF Backed
    <3>3. CASE g.kind = "method"
      BY <2>5, <3>3 DEF Backed
    <3>2. CASE g.kind \notin {"lambda", "method"}
      <4>1. g.key \in Names \X Nat
        BY <3>2, CallableFacts
      <4>2. g.key \in DOMAIN function_bodies /\ function_bodies[g.key] = g.code /\ g.key[2] < next_id
        BY <2>5, <3>2 DEF Backed
      <4>3. g.key \notin DOMAIN new /\ g.key[2] < next_id + 1
        BY <1>3, <2>2, <4>1, <4>2
      <4> QED
        BY <2>1, <3>2, <4>2, <4>3, <2>9 DEF Backed, Grown
    <3> QED
      BY <3>1, <3>2, <3>3
  <2>6. AllBacked(variables', function_bodies', lambda_bodies', next_id')
    BY <1>1, <2>1, <2>3, <2>4, <2>5, BackedBind
  <2>7. ClassesBacked(classes', function_bodies')
    <3> SUFFICES ASSUME NEW c \in Classes, NEW p \in Parts
                 PROVE  classes[c][p] = Lookup(function_bodies', PartKey(c, p))
      BY <2>1 DEF ClassesBacked
    <3>1. PartKey(c, p) \notin DOMAIN new
      BY <1>2, <1>3, <2>2, KeysApart
    <3> QED
      BY <1>1, <2>1, <3>1, <2>9 DEF ClassesBacked, Grown
  <2>8. program.imports # 0 => Rebuildable(variables')
    BY <1>5, <1>6, <2>1, <2>3
  <2> QED
    BY <1>1, <1>4, <2>1, <2>6, <2>7, <2>8
<1>8. ASSUME NEW n \in Names, NEW t \in Texts, eval_lambda_def(n, t)
      PROVE  BodyInv'
  <2> DEFINE id == Cardinality(DOMAIN lambda_bodies)
             fn == [kind |-> "lambda", name |-> "<lambda>", key |-> id, code |-> defs', text |-> t]
             new == [k \in {id} |-> defs']
  <2>1. /\ lambda_bodies' = Over(lambda_bodies, new) /\ "lambda" \in Shapes
        /\ Bind(n, Direct(fn)) /\ UNCHANGED <<classes, function_bodies, next_id, older, host>>
    BY <1>8 DEF eval_lambda_def
  <2>2. DOMAIN new = {id} /\ new[id] = defs'
    OBVIOUS
  <2>3. /\ fn.kind = "lambda" /\ fn.key = id /\ fn.code = defs'
        /\ Direct(fn).fn = fn /\ Direct(fn).in = "itself"
    BY DEF Direct
  <2>4. PICK m \in Nat : DOMAIN lambda_bodies = 0 .. (m - 1)
    BY <1>1 DEF Dense
  <2>5. id = m /\ id \notin DOMAIN lambda_bodies
    <3>1. 0 \in Int /\ (m - 1) \in Int
      OBVIOUS
    <3>2. Cardinality(0 .. (m - 1)) = IF 0 > m - 1 THEN 0 ELSE (m - 1) - 0 + 1
      BY <3>1, FS_Interval
    <3>3. id = m
      BY <2>4, <3>2
    <3> QED
      BY <2>4, <3>3
  <2> HIDE DEF id, fn, new
  <2>12. Grown(lambda_bodies', lambda_bodies, new)
    BY <2>1, OverFacts
  <2>6. DOMAIN lambda_bodies' = 0 .. m
    BY <2>1, <2>2, <2>4, <2>5, <2>12 DEF Grown
  <2>7. Dense(lambda_bodies')
    <3>1. m + 1 \in Nat /\ 0 .. m = 0 .. ((m + 1) - 1)
      OBVIOUS
    <3> QED
      BY <2>6, <3>1 DEF Dense
  <2>8. Backed(fn, function_bodies', lambda_bodies', next_id')
    BY <2>1, <2>2, <2>3, <2>12 DEF Backed, Grown
  <2>9. ASSUME NEW g \in CallableValues,
               Backed(g, function_bodies, lambda_bodies, next_id)
        PROVE  Backed(g, function_bodies', lambda_bodies', next_id')
    <3>1. CASE g.kind = "lambda"
      BY <2>1, <2>2, <2>5, <2>9, <3>1, <2>12 DEF Backed, Grown
    <3>2. CASE g.kind # "lambda"
      BY <2>1, <2>9, <3>2 DEF Backed
    <3> QED
      BY <3>1, <3>2
  <2>10. AllBacked(variables', function_bodies', lambda_bodies', next_id')
    BY <1>1, <2>1, <2>3, <2>8, <2>9, BackedBind
  <2>11. ClassesBacked(classes', function_bodies')
    BY <1>1, <2>1
  <2> QED
    BY <1>4, <1>6, <2>1, <2>7, <2>10, <2>11
<1>9. ASSUME NEW c \in Classes, eval_class_def(c) PROVE BodyInv'
  <2> DEFINE new == [k \in {PartKey(c, p) : p \in Parts} |-> defs']
  <2>1. /\ function_bodies' = Over(function_bodies, new)
        /\ classes' = [classes EXCEPT ![c] = [p \in Parts |-> defs']]
        /\ UNCHANGED <<variables, lambda_bodies, next_id, older, host>>
    BY <1>9 DEF eval_class_def
  <2>2. DOMAIN new = {PartKey(c, p) : p \in Parts} /\ \A k \in DOMAIN new : new[k] = defs'
    OBVIOUS
  <2> HIDE DEF new
  <2>6. Grown(function_bodies', function_bodies, new)
    BY <2>1, OverFacts
  <2>3. AllBacked(variables', function_bodies', lambda_bodies', next_id')
    <3> SUFFICES ASSUME NEW n \in Names, variables[n].in \in {"itself", "list"}
                 PROVE  Backed(variables[n].fn, function_bodies', lambda_bodies, next_id)
      BY <2>1 DEF AllBacked
    <3> DEFINE g == variables[n].fn
    <3>1. g \in CallableValues /\ Backed(g, function_bodies, lambda_bodies, next_id)
      BY <1>1, <1>3, ValueFacts DEF AllBacked
    <3> HIDE DEF g
    <3>2. CASE g.kind = "lambda"
      BY <3>1, <3>2 DEF Backed, g
    <3>4. CASE g.kind = "method"
      BY <3>1, <3>4 DEF Backed, g
    <3>3. CASE g.kind \notin {"lambda", "method"}
      <4>1. g.key \in Names \X Nat
        BY <3>1, <3>3, CallableFacts
      <4>2. g.key \notin DOMAIN new
        BY <1>2, <2>2, <4>1, KeysApart
      <4>3. g.key \in DOMAIN function_bodies /\ function_bodies[g.key] = g.code /\ g.key[2] < next_id
        BY <3>1, <3>3 DEF Backed
      <4>4. Backed(g, function_bodies', lambda_bodies, next_id)
        BY <2>1, <3>3, <4>2, <4>3, <2>6 DEF Backed, Grown
      <4> QED
        BY <4>4 DEF g
    <3> QED
      BY <3>2, <3>3, <3>4
  <2>4. ClassesBacked(classes', function_bodies')
    <3> SUFFICES ASSUME NEW d \in Classes, NEW p \in Parts
                 PROVE  classes'[d][p] = Lookup(function_bodies', PartKey(d, p))
      BY DEF ClassesBacked
    <3>1. classes \in [Classes -> [Parts -> Nat]]
      BY DEF TypeOK, ClassTables
    <3>2. CASE d = c
      <4>1. classes'[d][p] = defs'
        BY <2>1, <3>1, <3>2
      <4>2. PartKey(d, p) \in DOMAIN new
        BY <2>2, <3>2
      <4> QED
        BY <2>1, <2>2, <4>1, <4>2, <2>6 DEF Grown
    <3>3. CASE d # c
      <4>1. classes'[d][p] = classes[d][p]
        BY <2>1, <3>1, <3>3
      <4>2. PartKey(d, p) \notin DOMAIN new
        BY <1>2, <2>2, <3>3, PartKeys
      <4> QED
        BY <1>1, <2>1, <4>1, <4>2, <2>6 DEF ClassesBacked, Grown
    <3> QED
      BY <3>2, <3>3
  <2>5. program.imports # 0 => Rebuildable(variables')
    BY <2>1 DEF BodyInv
  <2> QED
    BY <1>1, <1>4, <2>1, <2>3, <2>4, <2>5
<1> QED
  BY <1>7, <1>8, <1>9

(* The bodies while values move about, and in a new interpreter. *)
LEMMA BodyMoves ==
    ASSUME TypeOK, BodyInv, UNCHANGED program, KeepsBodies(program),
           \/ \E n \in Names, m \in Names : Alias(n, m) \/ PutInList(n, m)
           \/ \E n \in Names, c \in Classes, p \in Parts : TakeMethod(n, c, p)
           \/ \E n \in Names, v \in Plain : SetPlain(n, v)
           \/ NextRun \/ Restart
    PROVE  BodyInv'
<1>1. /\ AllBacked(variables, function_bodies, lambda_bodies, next_id)
      /\ ClassesBacked(classes, function_bodies) /\ Dense(lambda_bodies)
  BY DEF BodyInv
<1>2. Parts' = Parts /\ Parts \subseteq {"method", "static"}
  BY DEF Parts, Shapes
<1>3. variables \in [Names -> Values] /\ \A n \in Names : variables[n] \in Values
  BY DEF TypeOK
<1>4. ASSUME host' = host, AllBacked(variables', function_bodies', lambda_bodies', next_id'),
             ClassesBacked(classes', function_bodies'), Dense(lambda_bodies'),
             program.imports # 0 => Rebuildable(variables')
      PROVE  BodyInv'
  <2>1. blob' = blob /\ program' = program
    BY <1>4 DEF host
  <2>2. ClassesBacked(classes, function_bodies)'
    BY <1>2, <1>4 DEF ClassesBacked
  <2>3. AllBacked(variables, function_bodies, lambda_bodies, next_id)'
    BY <1>2, <1>4 DEF AllBacked, Backed
  <2> QED
    BY <1>4, <2>1, <2>2, <2>3, Zenon DEF BodyInv
<1>5. ASSUME NEW n \in Names, NEW v, Bind(n, v),
             UNCHANGED <<classes, function_bodies, lambda_bodies, next_id, host>>,
             v.in \in {"itself", "list"} =>
                Backed(v.fn, function_bodies, lambda_bodies, next_id),
             program.imports # 0 =>
                /\ v.in # "list"
                /\ v.in = "itself" => v.fn.kind # "lambda" /\ v.fn.text # "stub"
      PROVE  BodyInv'
  <2>1. AllBacked(variables', function_bodies, lambda_bodies, next_id)
    BY <1>1, <1>5, BackedBind
  <2>2. program.imports # 0 => Rebuildable(variables')
    <3>1. \A k \in Names : variables'[k] = IF k = n THEN v ELSE variables[k]
      BY <1>3, <1>5 DEF Bind
    <3>2. program.imports # 0 => Rebuildable(variables)
      BY DEF BodyInv
    <3> QED
      BY <1>5, <3>1, <3>2 DEF Rebuildable
  <2> QED
    BY <1>1, <1>4, <1>5, <2>1, <2>2
<1>6. ASSUME NEW n \in Names, NEW m \in Names, Alias(n, m) PROVE BodyInv'
  <2>1. /\ Bind(n, variables[m])
        /\ UNCHANGED <<classes, function_bodies, lambda_bodies, next_id, host>>
    BY <1>6 DEF Alias
  <2>2. variables[m].in \in {"itself", "list"} =>
           Backed(variables[m].fn, function_bodies, lambda_bodies, next_id)
    BY <1>1 DEF AllBacked
  <2>3. program.imports # 0 =>
           /\ variables[m].in # "list"
           /\ variables[m].in = "itself" =>
                 variables[m].fn.kind # "lambda" /\ variables[m].fn.text # "stub"
    BY DEF BodyInv, Rebuildable
  <2> QED
    BY <1>5, <2>1, <2>2, <2>3
<1>7. ASSUME NEW n \in Names, NEW m \in Names, PutInList(n, m) PROVE BodyInv'
  <2>1. /\ Bind(n, InList(variables[m].fn)) /\ "list" \in Shapes /\ variables[m].in = "itself"
        /\ UNCHANGED <<classes, function_bodies, lambda_bodies, next_id, host>>
    BY <1>7 DEF PutInList
  <2>2. InList(variables[m].fn).fn = variables[m].fn
    BY DEF InList
  <2>3. Backed(InList(variables[m].fn).fn, function_bodies, lambda_bodies, next_id)
    BY <1>1, <2>1, <2>2 DEF AllBacked
  <2>4. program.imports = 0
    BY <2>1 DEF KeepsBodies, Shapes
  <2> QED
    BY <1>5, <2>1, <2>3, <2>4
<1>11. ASSUME NEW n \in Names, NEW c \in Classes, NEW p \in Parts, TakeMethod(n, c, p)
       PROVE  BodyInv'
  <2> DEFINE fn == [kind |-> "method", name |-> c, key |-> PartKey(c, p),
                    code |-> classes[c][p], text |-> "own"]
  <2>1. /\ Bind(n, Direct(fn))
        /\ UNCHANGED <<classes, function_bodies, lambda_bodies, next_id, host>>
    BY <1>11 DEF TakeMethod
  <2>2. /\ fn.kind = "method" /\ fn.text = "own" /\ fn.name = c /\ fn.key = PartKey(c, p)
        /\ Direct(fn).fn = fn /\ Direct(fn).in = "itself"
    BY DEF Direct
  <2> HIDE DEF fn
  <2>3. Backed(Direct(fn).fn, function_bodies, lambda_bodies, next_id)
    BY <2>2 DEF Backed
  <2> QED
    BY <1>5, <2>1, <2>2, <2>3
<1>8. ASSUME NEW n \in Names, NEW v \in Plain, SetPlain(n, v) PROVE BodyInv'
  <2>1. /\ Bind(n, v) /\ UNCHANGED <<classes, function_bodies, lambda_bodies, next_id, host>>
    BY <1>8 DEF SetPlain
  <2>2. v.in \notin {"itself", "list"}
    BY DEF Plain, None, Data, Proxy, Held, Unread, Heavy
  <2> QED
    BY <1>5, <2>1, <2>2
<1>9. CASE NextRun
  <2>1. UNCHANGED <<variables, classes, function_bodies, lambda_bodies, next_id, host>>
    BY <1>9 DEF NextRun
  <2>2. program.imports # 0 => Rebuildable(variables')
    BY <2>1 DEF BodyInv
  <2> QED
    BY <1>1, <1>4, <2>1, <2>2
<1>10. CASE Restart
  <2>1. /\ variables' = Unbound /\ classes' = NoClasses /\ function_bodies' = Empty
        /\ lambda_bodies' = Empty /\ UNCHANGED host
    BY <1>10 DEF Restart
  <2>2. \A n \in Names : variables'[n].in = "none"
    BY <2>1 DEF Unbound, None
  <2>3. AllBacked(variables', function_bodies', lambda_bodies', next_id')
    BY <2>2 DEF AllBacked
  <2>4. ClassesBacked(classes', function_bodies')
    BY <2>1 DEF ClassesBacked, NoClasses, NoClass, Empty, Lookup
  <2>5. Dense(lambda_bodies')
    <3>1. DOMAIN lambda_bodies' = 0 .. (0 - 1)
      BY <2>1 DEF Empty
    <3> QED
      BY <3>1 DEF Dense
  <2>6. Rebuildable(variables')
    BY <2>2 DEF Rebuildable
  <2> QED
    BY <1>4, <2>1, <2>3, <2>4, <2>5, <2>6
<1> QED
  BY <1>6, <1>7, <1>8, <1>9, <1>10, <1>11

(* Import gives every function and method in the bytes its body back. *)
LEMMA BodyImports ==
    ASSUME TypeOK, BodyInv, program.imports # 0, KeepsBodies(program), blob # None, Valid, Commit,
           NEW names \in SUBSET Imported({"lambda"}), lambda_bodies' \in LambdaBodies(names)
    PROVE  /\ AllBacked(variables', function_bodies', lambda_bodies', next_id')
           /\ ClassesBacked(classes', function_bodies') /\ Dense(lambda_bodies')
           /\ Rebuildable(variables')
<1> DEFINE new == [k \in {<<n, 0>> : n \in Imported({"def"})} |-> Parsed(fnAt(k[1]))]
<1>1. /\ variables' = blob.variables /\ classes' = blob.classes /\ next_id' = next_id
      /\ function_bodies' = Over(ParsedMethods, new)
  BY DEF Commit
<1>2. Grown(function_bodies', ParsedMethods, new)
  BY <1>1, OverFacts
<1>3. /\ Rebuildable(blob.variables)
      /\ \A n \in Names : blob.variables[n].in = "itself" =>
            KeyedByName(blob.variables[n].fn)
  BY DEF BodyInv
<1>4. /\ DOMAIN new = {<<n, 0>> : n \in Imported({"def"})}
      /\ \A n \in Imported({"def"}) : new[<<n, 0>>] = Parsed(fnAt(n))
  OBVIOUS
<1> HIDE DEF new
<1>5. next_id \in Nat \ {0} /\ \A n \in Names : blob.variables[n] \in Values
  BY BlobFacts DEF TypeOK
<1>6. AllBacked(variables', function_bodies', lambda_bodies', next_id')
  <2> SUFFICES ASSUME NEW n \in Names, blob.variables[n].in \in {"itself", "list"}
               PROVE  Backed(fnAt(n), function_bodies', lambda_bodies', next_id)
    BY <1>1 DEF AllBacked, fnAt
  <2>1. /\ blob.variables[n].in = "itself" /\ fnAt(n).kind # "lambda" /\ fnAt(n).text # "stub"
        /\ KeyedByName(fnAt(n))
    BY <1>3 DEF Rebuildable, fnAt
  <2>2. fnAt(n) \in CallableValues
    BY <1>5, ValueFacts DEF fnAt
  <2>3. fnAt(n).kind \in {"def", "async", "method"} /\ fnAt(n).text \in {"own", "stub", "other"}
    BY <2>1, <2>2, CallableFacts
  <2>4. n \in Imported({"def", "async", "method"})
    BY <2>1, <2>3 DEF Imported, fnAt
  <2>5. fnAt(n).kind = "def" /\ fnAt(n).text = "own" /\ fnAt(n).name = n
        /\ fnAt(n).key = <<n, 0>>
    BY <2>1, <2>3, <2>4 DEF Valid, KeyedByName
  <2>6. n \in Imported({"def"}) /\ Parsed(fnAt(n)) = fnAt(n).code
    BY <2>1, <2>5 DEF Imported, fnAt, Parsed
  <2>7. fnAt(n).key \in DOMAIN function_bodies' /\ function_bodies'[fnAt(n).key] = fnAt(n).code
    BY <1>2, <1>4, <2>1, <2>5, <2>6 DEF Grown
  <2>8. fnAt(n).key[2] < next_id
    BY <1>5, <2>5
  <2> QED
    BY <2>5, <2>7, <2>8 DEF Backed
<1>7. ClassesBacked(classes', function_bodies')
  <2> SUFFICES ASSUME NEW c \in Classes, NEW p \in Parts
               PROVE  blob.classes[c][p] = Lookup(function_bodies', PartKey(c, p))
    BY <1>1 DEF ClassesBacked
  <2>1. p = "method"
    BY DEF KeepsBodies, Parts, Shapes
  <2>2. PartKey(c, p) = <<c, 0>> /\ c \notin Names
    BY <2>1, NameFacts DEF PartKey
  <2>3. PartKey(c, p) \notin DOMAIN new
    BY <1>4, <2>2 DEF Imported
  <2>4. Lookup(function_bodies', PartKey(c, p)) = Lookup(ParsedMethods, PartKey(c, p))
    BY <1>2, <2>3 DEF Grown
  <2>5. Lookup(ParsedMethods, <<c, 0>>) = blob.classes[c]["method"]
    <3> DEFINE with == {x \in Classes : "method" \in Parts /\ blob.classes[x]["method"] # 0}
    <3>1. ParsedMethods = [k \in {<<x, 0>> : x \in with} |-> blob.classes[k[1]]["method"]]
      BY DEF ParsedMethods, PartKey
    <3>2. <<c, 0>> \in DOMAIN ParsedMethods <=> c \in with
      BY <3>1
    <3>3. CASE c \in with
      BY <3>1, <3>2, <3>3 DEF Lookup
    <3>4. CASE c \notin with
      BY <2>1, <3>2, <3>4 DEF Lookup
    <3> QED
      BY <3>3, <3>4
  <2> QED
    BY <2>1, <2>2, <2>4, <2>5
<1>8. Dense(lambda_bodies')
  <2>1. Imported({"lambda"}) = {}
    BY <1>3 DEF Imported, Rebuildable
  <2>2. names = {} /\ names \in SUBSET Names
    BY <2>1
  <2>3. DOMAIN lambda_bodies' = {}
    BY <2>2, LambdaBodiesFacts
  <2>4. {} = 0 .. (0 - 1)
    OBVIOUS
  <2> QED
    BY <2>3, <2>4 DEF Dense
<1> QED
  BY <1>1, <1>3, <1>6, <1>7, <1>8

(* Callables keep their own bodies through every step. *)
LEMMA BodyNext ==
    ASSUME \A p \in Programs : KeepsBodies(p)
    PROVE  TypeOK /\ BodyInv /\ [Next]_vars => BodyInv'
<1> SUFFICES ASSUME TypeOK, BodyInv, [Next]_vars PROVE BodyInv'
  OBVIOUS
<1>1. program' = program /\ KeepsBodies(program) /\ Parts' = Parts
  BY DEF Next, vars, TypeOK, Parts, Shapes
<1>2. ASSUME UNCHANGED interp,
             program.imports # 0 /\ blob' # None =>
              /\ Rebuildable(blob'.variables)
              /\ \A n \in Names : blob'.variables[n].in = "itself" =>
                    KeyedByName(blob'.variables[n].fn)
      PROVE  BodyInv'
  <2>1. UNCHANGED <<variables, classes, function_bodies, lambda_bodies, next_id>>
    BY <1>2 DEF interp
  <2>2. ClassesBacked(classes, function_bodies)'
    BY <1>1, <2>1 DEF BodyInv, ClassesBacked
  <2>3. AllBacked(variables, function_bodies, lambda_bodies, next_id)'
    BY <1>1, <2>1 DEF BodyInv, AllBacked, Backed
  <2> QED
    BY <1>1, <1>2, <2>1, <2>2, <2>3, Zenon DEF BodyInv
<1>3. CASE UNCHANGED vars
  <2>1. UNCHANGED interp /\ blob' = blob
    BY <1>3 DEF vars
  <2> QED
    BY <1>2, <2>1 DEF BodyInv
<1>4. CASE export_state
  <2> DEFINE ex == [n \in Names |-> Exported(n)]
  <2>1. UNCHANGED interp /\ (blob' = None \/ blob'.variables = ex)
    BY <1>4 DEF export_state
  <2>2. ASSUME program.imports # 0, NEW n \in Names
        PROVE  /\ Exported(n).in # "list"
               /\ Exported(n).in = "itself" =>
                    /\ Exported(n).fn.kind # "lambda" /\ Exported(n).fn.text # "stub"
                    /\ KeyedByName(Exported(n).fn)
    <3>1. variables[n] \in Values
      BY DEF TypeOK
    <3>2. /\ variables[n].in # "list"
          /\ variables[n].in = "itself" =>
                variables[n].fn.kind # "lambda" /\ variables[n].fn.text # "stub"
      BY <2>2 DEF BodyInv, Rebuildable
    <3>3. CASE Exported(n) = None
      BY <3>3 DEF None
    <3>4. CASE Exported(n) = Unkeyed(variables[n])
      <4>1. Unkeyed(variables[n]).in = variables[n].in
        BY <3>1, UnkeyedFacts, Zenon
      <4>2. variables[n].in = "itself" =>
               /\ Unkeyed(variables[n]).fn.kind = variables[n].fn.kind
               /\ Unkeyed(variables[n]).fn.name = variables[n].fn.name
               /\ Unkeyed(variables[n]).fn.text = variables[n].fn.text
               /\ KeyedByName(Unkeyed(variables[n]).fn)
        BY <3>1, UnkeyedFacts DEF KeyedByName
      <4> QED
        BY <3>2, <3>4, <4>1, <4>2
    <3> QED
      BY <3>3, <3>4 DEF Exported
  <2>3. program.imports # 0 =>
           /\ Rebuildable(ex)
           /\ \A n \in Names : ex[n].in = "itself" => KeyedByName(ex[n].fn)
    BY <2>2 DEF Rebuildable
  <2> HIDE DEF ex
  <2> QED
    BY <1>2, <2>1, <2>3
<1>5. CASE Corrupt
  <2>1. UNCHANGED interp /\ blob # None /\ blob' = [blob EXCEPT !.intact = FALSE]
    BY <1>5 DEF Corrupt
  <2>2. blob'.variables = blob.variables
    BY <2>1, BlobFacts
  <2> QED
    BY <1>2, <2>1, <2>2 DEF BodyInv
<1>6. CASE import_state
  <2>1. blob # None /\ blob' = blob /\ imports < program.imports
    BY <1>6, ImportFacts
  <2>2. program.imports # 0
    BY <2>1, ProgramFacts DEF TypeOK
  <2>3. CASE UNCHANGED interp
    BY <1>2, <2>1, <2>3 DEF BodyInv
  <2>4. CASE /\ Commit /\ Valid
             /\ \E names \in SUBSET Imported({"lambda"}) : lambda_bodies' \in LambdaBodies(names)
    <3>1. /\ AllBacked(variables', function_bodies', lambda_bodies', next_id')
          /\ ClassesBacked(classes', function_bodies') /\ Dense(lambda_bodies')
          /\ Rebuildable(variables')
      BY <1>1, <2>1, <2>2, <2>4, BodyImports
    <3>2. ClassesBacked(classes, function_bodies)'
      BY <1>1, <3>1 DEF ClassesBacked
    <3>3. AllBacked(variables, function_bodies, lambda_bodies, next_id)'
      BY <1>1, <3>1 DEF AllBacked, Backed
    <3> QED
      BY <1>1, <2>1, <3>1, <3>2, <3>3, Zenon DEF BodyInv
  <2> QED
    BY <1>6, <2>3, <2>4, ImportFacts
<1>7. CASE Next
  BY <1>1, <1>4, <1>5, <1>6, <1>7, BodyDefs, BodyMoves DEF Next
<1> QED
  BY <1>3, <1>7

(* Every function and lambda runs the body it was defined with, and a method *)
(* its class's present one, also where it was taken out of the class:       *)
(* for every program while it is not imported into, and through any number  *)
(* of exports, restarts and imports for programs of functions under any     *)
(* name, methods and data (body_cache_key, eval_lambda_def, import_state).  *)
THEOREM BodiesAreOwn ==
    ASSUME \A p \in Programs : KeepsBodies(p)
    PROVE  Spec => []BodyIsOwn
<1>1. Init => BodyInv
  <2> SUFFICES ASSUME Init PROVE BodyInv
    OBVIOUS
  <2>1. \A n \in Names : variables[n].in = "none"
    BY DEF Init, Unbound, None
  <2>2. AllBacked(variables, function_bodies, lambda_bodies, next_id) /\ Rebuildable(variables)
    BY <2>1 DEF AllBacked, Rebuildable
  <2>3. ClassesBacked(classes, function_bodies)
    BY DEF Init, ClassesBacked, NoClasses, NoClass, Empty, Lookup
  <2>4. Dense(lambda_bodies)
    <3>1. DOMAIN lambda_bodies = 0 .. (0 - 1)
      BY DEF Init, Empty
    <3> QED
      BY <3>1 DEF Dense
  <2> QED
    BY <2>2, <2>3, <2>4 DEF Init, BodyInv
<1>2. BodyInv => BodyIsOwn
  <2> SUFFICES ASSUME BodyInv
               PROVE  /\ \A fn \in Callables(variables) :
                            Lookup(IF fn.kind = "lambda" THEN lambda_bodies
                                   ELSE function_bodies, fn.key)
                              = IF fn.kind = "method" THEN classes[fn.name][PartOf(fn.key)]
                                ELSE fn.code
                      /\ \A c \in Classes, p \in Parts :
                            classes[c][p] = Lookup(function_bodies, PartKey(c, p))
    BY DEF BodyIsOwn
  <2>1. \A fn \in Callables(variables) : Backed(fn, function_bodies, lambda_bodies, next_id)
    BY DEF BodyInv, AllBacked, Callables
  <2>2. \A c \in Classes, p \in Parts :
            classes[c][p] = Lookup(function_bodies, PartKey(c, p))
    BY DEF BodyInv, ClassesBacked
  <2>3. ASSUME NEW fn \in Callables(variables)
        PROVE  Lookup(IF fn.kind = "lambda" THEN lambda_bodies ELSE function_bodies, fn.key)
                 = IF fn.kind = "method" THEN classes[fn.name][PartOf(fn.key)] ELSE fn.code
    <3>1. CASE fn.kind = "method"
      <4>1. PICK p \in Parts : fn.name \in Classes /\ fn.key = PartKey(fn.name, p)
        BY <2>1, <3>1 DEF Backed
      <4>2. PartOf(fn.key) = p
        BY <4>1 DEF PartOf, PartKey, Parts
      <4> QED
        BY <2>2, <3>1, <4>1, <4>2
    <3>2. CASE fn.kind # "method"
      BY <2>1, <3>2 DEF Backed, Lookup
    <3> QED
      BY <3>1, <3>2
  <2> QED
    BY <2>2, <2>3
<1>3. TypeOK /\ BodyInv /\ [Next]_vars => BodyInv'
  BY BodyNext
<1> QED
  BY <1>1, <1>2, <1>3, TypeCorrect, PTL DEF Spec

=============================================================================
