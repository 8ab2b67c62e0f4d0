------------------------------ MODULE Persist ------------------------------
(***************************************************************************)
(* Definitions and their bodies, and state export and import: serialize.rs *)
(* with eval_function_def, eval_lambda_def and the class definitions that  *)
(* fill the caches it rebuilds.                                            *)
(*                                                                         *)
(* A callable does not hold its body: it holds a key into function_bodies  *)
(* or lambda_bodies, and a source text.  Import keeps the text and         *)
(* rebuilds the caches.  `code' numbers the definitions evaluated; 0 is    *)
(* the body of a stub, or no body, both of which return None.              *)
(***************************************************************************)
EXTENDS Naturals, FiniteSets

CONSTANTS
    Names,       \* variable names
    Internal,    \* those that start with an underscore
    Classes,     \* class names
    Programs     \* what programs do (shapes: see the guards below), what the
                 \* texts of their definitions turn out to be, and as bounds
                 \* how many definitions they evaluate and imports follow

ASSUME PersistAssumption ==
    /\ IsFiniteSet(Names) /\ Internal \subseteq Names /\ Names \cap Classes = {}
    /\ Programs \subseteq [shapes : SUBSET {"def", "async", "lambda", "list", "alias",
                                            "method", "static", "taken",
                                            "proxy", "held", "unread", "heavy"},
                            texts : SUBSET {"own", "stub", "other"},
                            defs : Nat, imports : Nat]

VARIABLES
    program,         \* the kind of program being run
    variables,       \* state.variables
    classes,         \* state.classes: the code of each part of a class
    function_bodies, \* the parse caches
    lambda_bodies,
    next_id,         \* state.next_cursor_id
    older,           \* callables defined by earlier runs or imported
    defs,            \* definitions evaluated so far
    blob,            \* the exported bytes, if any
    origin,          \* what the exporting interpreter held (history)
    outcome,         \* of the last import
    imports          \* imports so far

interp == <<variables, classes, function_bodies, lambda_bodies, next_id, older>>
vars   == <<program, interp, defs, blob, origin, outcome, imports>>

None  == [in |-> "none"]
Data  == [in |-> "data"]              \* what JSON gives back as it was
Proxy == [in |-> "proxy"]             \* a LazyProxy
Held  == [in |-> "held"]              \* a list that holds one
Unread == [in |-> "unread"]           \* what JSON cannot give back: an infinite
                                      \* float (written as null), 16 MB of text
Heavy == [in |-> "heavy"]             \* more than the limit of memory, which
                                      \* set_variable refuses and keeps
Plain == {None, Data, Proxy, Held, Unread, Heavy}
Direct(fn) == [in |-> "itself", fn |-> fn]
InList(fn) == [in |-> "list", fn |-> fn]

Shapes == program.shapes
Texts  == program.texts
Parts == Shapes \cap {"method", "static"}
NoClass == [p \in Parts |-> 0]
Callables(vs) == {vs[n].fn : n \in {k \in Names : vs[k].in \in {"itself", "list"}}}
Codes(vs) == {fn.code : fn \in Callables(vs)}
Empty == [k \in {} |-> 0]

(* A cache with the entries of `new' put into it. *)
Over(cache, new) == [k \in DOMAIN cache \cup DOMAIN new |->
                        IF k \in DOMAIN new THEN new[k] ELSE cache[k]]

Unbound == [n \in Names |-> None]
NoClasses == [c \in Classes |-> NoClass]

Init ==
    /\ program \in Programs
    /\ variables = Unbound /\ classes = NoClasses
    /\ function_bodies = Empty /\ lambda_bodies = Empty
    /\ next_id = 1 /\ older = {} /\ defs = 0
    /\ blob = None /\ origin = None
    /\ outcome = "none" /\ imports = 0

-----------------------------------------------------------------------------
(* Running programs *)

host == <<blob, origin, outcome, imports>>

(* The text is sliced from the source of the current run: the text of a     *)
(* definition inside a function of an earlier run is something else.       *)
TextOf(t) ==
    /\ t \in Texts
    /\ t # "own" => older \cap Codes(variables) # {}

Bind(n, v) == variables' = [variables EXCEPT ![n] = v]

(* Mutant: the body is cached under the function's name. *)
DefineByName(kind, n, t) ==
    /\ kind \in Shapes \cap {"def", "async"} /\ defs < program.defs /\ TextOf(t)
    /\ defs' = defs + 1
    /\ next_id' = next_id + 1
    /\ function_bodies' = Over(function_bodies, [k \in {<<n, 0>>} |-> defs'])
    /\ Bind(n, Direct([kind |-> kind, name |-> n, key |-> <<n, 0>>,
                       code |-> defs', text |-> t]))
    /\ UNCHANGED <<classes, lambda_bodies, older, host>>

(* def and async def: the body is cached under a key used once. *)
eval_function_def(kind, n, t) ==
    /\ kind \in Shapes \cap {"def", "async"} /\ defs < program.defs /\ TextOf(t)
    /\ defs' = defs + 1
    /\ next_id' = next_id + 1
    /\ function_bodies' = Over(function_bodies, [k \in {<<n, next_id>>} |-> defs'])
    /\ Bind(n, Direct([kind |-> kind, name |-> n, key |-> <<n, next_id>>,
                       code |-> defs', text |-> t]))
    /\ UNCHANGED <<classes, lambda_bodies, older, host>>

(* n = lambda: ...; the key is the number of lambdas cached. *)
eval_lambda_def(n, t) ==
    /\ "lambda" \in Shapes /\ defs < program.defs /\ TextOf(t)
    /\ defs' = defs + 1
    /\ LET id == Cardinality(DOMAIN lambda_bodies) IN
       /\ lambda_bodies' = Over(lambda_bodies, [k \in {id} |-> defs'])
       /\ Bind(n, Direct([kind |-> "lambda", name |-> "<lambda>", key |-> id,
                          code |-> defs', text |-> t]))
    /\ UNCHANGED <<classes, function_bodies, next_id, older, host>>

(* Methods and static methods are cached under names made of the class's,  *)
(* which the next class of that name writes over.                          *)
PartKey(c, p) == <<c, IF p = "method" THEN 0 ELSE 1>>

(* class c *)
eval_class_def(c) ==
    /\ Parts # {} /\ defs < program.defs
    /\ defs' = defs + 1
    /\ classes' = [classes EXCEPT ![c] = [p \in Parts |-> defs']]
    /\ function_bodies' = Over(function_bodies, [k \in {PartKey(c, p) : p \in Parts} |-> defs'])
    /\ UNCHANGED <<variables, lambda_bodies, next_id, older, host>>

(* n = c.m: the method's own definition, with the key it has in the class. *)
TakeMethod(n, c, p) ==
    /\ "taken" \in Shapes /\ p \in Parts /\ classes[c][p] # 0
    /\ Bind(n, Direct([kind |-> "method", name |-> c, key |-> PartKey(c, p),
                       code |-> classes[c][p], text |-> "own"]))
    /\ UNCHANGED <<classes, function_bodies, lambda_bodies, next_id, older, defs, host>>

(* n = m, and what a decorator that returns another function does. *)
Alias(n, m) ==
    /\ "alias" \in Shapes /\ variables[m] # None
    /\ Bind(n, variables[m])
    /\ UNCHANGED <<classes, function_bodies, lambda_bodies, next_id, older, defs, host>>

(* n = [m] *)
PutInList(n, m) ==
    /\ "list" \in Shapes /\ variables[m].in = "itself"
    /\ Bind(n, InList(variables[m].fn))
    /\ UNCHANGED <<classes, function_bodies, lambda_bodies, next_id, older, defs, host>>

(* del n, or a value that is not a callable. *)
SetPlain(n, v) ==
    /\ v \in {None, Data} \/ v.in \in Shapes
    /\ Bind(n, v)
    /\ UNCHANGED <<classes, function_bodies, lambda_bodies, next_id, older, defs, host>>

NextRun ==
    /\ older' = Codes(variables)
    /\ UNCHANGED <<variables, classes, function_bodies, lambda_bodies, next_id, defs, host>>

-----------------------------------------------------------------------------
(* Export *)

(* FunctionDef::body_key is not serialized; a method has none. *)
Unkeyed(v) == IF v.in \in {"itself", "list"} /\ v.fn.kind \in {"def", "async"}
              THEN [v EXCEPT !.fn.key = <<v.fn.name, 0>>] ELSE v

Exported(n) == IF n \in Internal \/ variables[n] = Proxy
               THEN None ELSE Unkeyed(variables[n])

(* A LazyProxy is left out as a variable and refused inside another value. *)
Writable == \A n \in Names : Exported(n) # Held

(* The host has what the last export returned: bytes, or an error. *)
export_state ==
    /\ imports < program.imports
    /\ \/ /\ Writable
          /\ blob' = [in |-> "blob", intact |-> TRUE,
                      variables |-> [n \in Names |-> Exported(n)], classes |-> classes]
          /\ origin' = [in |-> "state", variables |-> variables, classes |-> classes]
       \/ ~Writable /\ blob' = None /\ origin' = None
    /\ UNCHANGED <<interp, defs, outcome, imports>>

(* The bytes are truncated, too many, or of another version. *)
Corrupt ==
    /\ blob # None /\ blob.intact
    /\ blob' = [blob EXCEPT !.intact = FALSE]
    /\ UNCHANGED <<interp, defs, origin, outcome, imports>>

(* A new interpreter, in this process or another. *)
Restart ==
    /\ variables' = Unbound /\ classes' = NoClasses
    /\ function_bodies' = Empty /\ lambda_bodies' = Empty
    /\ next_id' = 1 /\ older' = {}
    /\ UNCHANGED <<defs, host>>

-----------------------------------------------------------------------------
(* Import *)

Imported(kinds) == {n \in Names : /\ blob.variables[n].in = "itself"
                                  /\ blob.variables[n].fn.kind \in kinds}
fnAt(n) == blob.variables[n].fn

(* The bytes are not too many, and parse; each function in a variable       *)
(* parses as one def of the variable's name.                               *)
Valid ==
    /\ blob.intact /\ \A n \in Names : blob.variables[n] # Unread
    /\ \A n \in Imported({"def", "async", "method"}) :
          fnAt(n).kind = "def" /\ fnAt(n).text # "other" /\ fnAt(n).name = n

(* What its text parses to. *)
Parsed(fn) == IF fn.text = "own" THEN fn.code ELSE 0

ParsedMethods == [k \in {PartKey(c, "method") : c \in {x \in Classes :
                     "method" \in Parts /\ blob.classes[x]["method"] # 0}}
                    |-> blob.classes[k[1]]["method"]]

(* Parsed lambda bodies, in any order: of two with one key, either stays.  *)
LambdaBodies(names) ==
    LET ids == {fnAt(n).key : n \in names}
    IN  {b \in [ids -> {Parsed(fnAt(n)) : n \in names}] :
           \A id \in ids : \E n \in names : fnAt(n).key = id /\ b[id] = Parsed(fnAt(n))}

Broken == {n \in Imported({"lambda"}) : fnAt(n).text = "other"}

Calling == blob # None /\ imports < program.imports /\ imports' = imports + 1

(* Mutant: only what was parsed again is kept in the variables. *)
CommitFunctions ==
    /\ variables' = [n \in Names |-> IF n \in Imported({"def"}) THEN blob.variables[n] ELSE None]
    /\ classes' = blob.classes
    /\ function_bodies' =
          Over(ParsedMethods, [k \in {<<n, 0>> : n \in Imported({"def"})} |-> Parsed(fnAt(k[1]))])
    /\ older' = {}
    /\ UNCHANGED <<next_id, defs, blob, origin>>

Commit ==
    /\ variables' = blob.variables
    /\ classes' = blob.classes
    /\ function_bodies' =
          Over(ParsedMethods, [k \in {<<n, 0>> : n \in Imported({"def"})} |-> Parsed(fnAt(k[1]))])
    /\ older' = Codes(blob.variables)
    /\ UNCHANGED <<next_id, defs, blob, origin>>

(* Refused before anything is changed. *)
ImportRejected ==
    /\ Calling /\ ~Valid
    /\ outcome' = "error"
    /\ UNCHANGED <<interp, defs, blob, origin>>

(* What the variables read take is more than the limit, which is the same   *)
(* in every interpreter.                                                   *)
OverLimit == \E n \in Names : blob.variables[n] = Heavy

(* Everything is in place when memory is checked. *)
ImportDone ==
    /\ Calling /\ Valid /\ Broken = {}
    /\ Commit
    /\ lambda_bodies' \in LambdaBodies(Imported({"lambda"}))
    /\ outcome' = IF OverLimit THEN "over" ELSE "ok"

(* Mutant: the cache of lambdas is not cleared first. *)
ImportStopsUncleared ==
    /\ Calling /\ Valid /\ Broken # {}
    /\ Commit
    /\ lambda_bodies' = lambda_bodies
    /\ outcome' = "error"

(* A lambda does not parse: those before it are in place. *)
ImportStops ==
    /\ Calling /\ Valid /\ Broken # {}
    /\ Commit
    /\ \E done \in SUBSET (Imported({"lambda"}) \ Broken) : lambda_bodies' \in LambdaBodies(done)
    /\ outcome' = "error"

import_state == ImportRejected \/ ImportDone \/ ImportStops

-----------------------------------------------------------------------------
Next ==
    /\ \/ \E n \in Names, t \in Texts :
             \/ \E kind \in {"def", "async"} : eval_function_def(kind, n, t)
             \/ eval_lambda_def(n, t)
       \/ \E c \in Classes : eval_class_def(c)
       \/ \E n \in Names, m \in Names : Alias(n, m) \/ PutInList(n, m)
       \/ \E n \in Names, c \in Classes, p \in Parts : TakeMethod(n, c, p)
       \/ \E n \in Names, v \in Plain : SetPlain(n, v)
       \/ NextRun \/ export_state \/ Corrupt \/ Restart \/ import_state
    /\ UNCHANGED program

Spec == Init /\ [][Next]_vars

-----------------------------------------------------------------------------
(* Properties *)

FunctionValues == [kind : {"def", "async"}, name : Names, key : Names \X Nat, code : Nat,
                   text : {"own", "stub", "other"}]
LambdaValues   == [kind : {"lambda"}, name : {"<lambda>"}, key : Nat, code : Nat,
                   text : {"own", "stub", "other"}]
MethodValues   == [kind : {"method"}, name : Classes, key : Classes \X {0, 1}, code : Nat,
                   text : {"own"}]
CallableValues == FunctionValues \cup LambdaValues \cup MethodValues
Values == Plain \cup [in : {"itself", "list"}, fn : CallableValues]
ClassTables == [Classes -> [Parts -> Nat]]

TypeOK ==
    /\ program \in Programs
    /\ variables \in [Names -> Values] /\ classes \in ClassTables
    /\ IsFiniteSet(DOMAIN lambda_bodies)
    /\ next_id \in Nat \ {0} /\ defs \in 0..program.defs /\ imports \in 0..program.imports
    /\ outcome \in {"none", "ok", "over", "error"}
    /\ blob \in {None} \cup [in : {"blob"}, intact : BOOLEAN,
                             variables : [Names -> Values], classes : ClassTables]
    /\ origin \in {None} \cup [in : {"state"}, variables : [Names -> Values],
                               classes : ClassTables]

PartOf(key) == IF key[2] = 0 THEN "method" ELSE "static"

Lookup(bodies, key) == IF key \in DOMAIN bodies THEN bodies[key] ELSE 0

(* Unless an import stopped, every function and lambda the program can      *)
(* reach runs the body it was defined with, after any redefinition,        *)
(* aliasing, export and import, one that ends over the limit of memory      *)
(* too, and every class runs its methods.  A method taken out of its class  *)
(* runs its own until the class is defined again, and from then on the new  *)
(* class's (body_cache_key, call_user_function_inner, call_lambda_inner).   *)
BodyIsOwn ==
    outcome # "error" =>
    /\ \A fn \in Callables(variables) :
          Lookup(IF fn.kind = "lambda" THEN lambda_bodies ELSE function_bodies, fn.key)
            = IF fn.kind = "method" THEN classes[fn.name][PartOf(fn.key)] ELSE fn.code
    /\ \A c \in Classes, p \in Parts : classes[c][p] = Lookup(function_bodies, PartKey(c, p))

Saved(n) == IF n \in Internal \/ origin.variables[n] = Proxy
            THEN None ELSE Unkeyed(origin.variables[n])

Imports == imports' = imports + 1

LambdaKeys == {fnAt(n).key : n \in Imported({"lambda"})}

OwnTexts == \A fn \in Callables(blob.variables) : fn.text = "own"

(* Importing bytes that arrived as exported, whose data JSON gives back and *)
(* whose definitions carry their own texts, gives back the exporting        *)
(* interpreter's variables and classes, even if it then reports that they   *)
(* are over the limit of memory, which nothing else makes it report.  A     *)
(* state that holds a proxy inside a value gives no bytes (export_state,    *)
(* import_state).                                                          *)
RoundTrips ==
    [][Imports /\ blob.intact /\ OwnTexts /\ (\A n \in Names : Saved(n) # Unread) =>
         /\ outcome' = IF \E n \in Names : Saved(n) = Heavy THEN "over" ELSE "ok"
         /\ variables' = [n \in Names |-> Saved(n)]
         /\ classes' = origin.classes
         /\ \A n \in Names : Saved(n) # Held]_vars

(* An import never mixes two states, although it can stop half way: it      *)
(* changes nothing, or every variable, class and body cached afterwards     *)
(* comes from the imported bytes.  "A malformed function source aborts the *)
(* import with the interpreter untouched", and so do damaged bytes: nothing *)
(* is changed unless the failure is a lambda's or the limit of memory's;    *)
(* and with the latter nothing is missing: the import is complete           *)
(* (import_state).                                                         *)
NeverMixed ==
    [][Imports =>
         /\ outcome' = "error" /\ (blob.intact => Broken = {}) => UNCHANGED interp
         /\ outcome' = "over" =>
               variables' = blob.variables /\ DOMAIN lambda_bodies' = LambdaKeys
         /\ \/ UNCHANGED interp
            \/ /\ variables' = blob.variables /\ classes' = blob.classes
               /\ \A k \in DOMAIN function_bodies' : k[2] = 0
               /\ \A k \in DOMAIN lambda_bodies' : \E n \in Imported({"lambda"}) :
                     fnAt(n).key = k /\ Parsed(fnAt(n)) = lambda_bodies'[k]]_vars

=============================================================================
