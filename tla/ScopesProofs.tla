----------------------------- MODULE ScopesProofs -----------------------------
(***************************************************************************)
(* Scopes for any number of names, functions, calls and levels of nesting,  *)
(* in programs of defs without `global' and `nonlocal': those whose          *)
(* functions are called by the activation that makes them, closures over     *)
(* each other's names included, and those whose functions use the module's   *)
(* names and their own, and may recurse, call one another and be handed      *)
(* down.                                                                    *)
(***************************************************************************)
EXTENDS Scopes, FiniteSetTheorems, SequenceTheorems, WellFoundedInduction, TLAPS

-----------------------------------------------------------------------------
(* The invariant *)

ReadRoles == {"param", "local", "read", "unused"}

(* Functions bind names module code does not use, and read only its names. *)
NamesApart(shapes) ==
    \A role \in shapes, n \in Names :
        IF n \in ModuleNames THEN role[n] \in {"read", "unused"}
                             ELSE role[n] \in {"param", "local", "unused"}

(* The programs. *)
OnlyReads(p) ==
    /\ p.kinds \subseteq {"def"} /\ p.shapes \subseteq [Names -> ReadRoles]
    /\ p.calls = "own" \/ (p.calls = "running" /\ NamesApart(p.shapes))

FunctionObjects == [kind : {"def"}, role : [Names -> ReadRoles], level : BOOLEAN,
                    closure : Env, refresh : [Names -> Nat], ncell : {0}, scope : Nat]
Saves == UNION {[S -> Value] : S \in SUBSET Names}
Frames == [fn : Nat, act : Nat, saved : Saves]
Activations == [fn : Nat, env : Env]

Types(V, vs, os, cs, fs, fr, rf) ==
    /\ vs \in Env /\ cs \in Seq(Env) /\ fs \in Seq(FunctionObjects)
    /\ fr \in Seq(Frames) /\ rf \in Seq(Activations)
    /\ os \in Seq([Names -> Nat]) /\ Len(os) = Len(fr)
    /\ V \in [1 .. Len(fr) -> Env]

(* The calls in progress, oldest first, are of functions that exist, and    *)
(* scopes are older than the activations of their functions.               *)
Chained(fs, fr, rf) ==
    /\ Len(fr) >= 1 /\ fr[1].fn = Module /\ fr[1].act = Module /\ Len(rf) >= 1
    /\ \A i \in 2 .. Len(fr) :
         /\ fr[i].fn \in 1 .. Len(fs)
         /\ fr[i].act \in 1 .. (Len(rf) - 1) /\ rf[fr[i].act + 1].fn = fr[i].fn
    /\ \A i, j \in 1 .. Len(fr) : i < j => fr[i].act < fr[j].act
    /\ \A a \in 1 .. (Len(rf) - 1) : rf[a + 1].fn \in 1 .. Len(fs) /\ fs[rf[a + 1].fn].scope < a
    /\ \A k \in 1 .. Len(fs) : /\ fs[k].scope \in 0 .. (Len(rf) - 1)
                               /\ fs[k].level <=> fs[k].scope = Module

(* V[i] is the map as frame i will find it when the calls above it are      *)
(* left: each of them puts back what it saved, the names it binds included. *)
Restores(V, vs, fs, fr) ==
    /\ V[Len(fr)] = vs
    /\ \A i \in 2 .. Len(fr), n \in Names :
         /\ V[i - 1][n] = IF n \in DOMAIN fr[i].saved THEN fr[i].saved[n] ELSE V[i][n]
         /\ fs[fr[i].fn].role[n] \in {"param", "local"} => n \in DOMAIN fr[i].saved

(* Every cell of a frame holds the frame's value, and is its own. *)
CellsHold(V, os, cs) ==
    /\ \A i \in 1 .. Len(os), n \in Names : os[i][n] # 0 =>
         os[i][n] \in 1 .. Len(cs) /\ V[i][n] # NoVal /\ cs[os[i][n]][n] = V[i][n]
    /\ \A i, j \in 1 .. Len(os) : \A m, n \in Names :
         i # j /\ os[i][m] # 0 => os[i][m] # os[j][n]

(* What a function refreshes when it is called are cells of its scope; the  *)
(* names it reads are among them if they had a value.                      *)
Refreshed(V, os, fs, fr) ==
    \A k \in 1 .. Len(fs), i \in 1 .. Len(fr), n \in Names : fs[k].scope = fr[i].act =>
       /\ fs[k].refresh[n] # 0 => fs[k].refresh[n] = os[i][n]
       /\ fs[k].role[n] = "read" /\ fs[k].closure[n] # NoVal => fs[k].refresh[n] # 0
       /\ fs[k].level /\ fs[k].closure[n] # NoVal => V[i][n] # NoVal

RoleOf(fs, k, n) == IF k # Module THEN fs[k].role[n]
                    ELSE IF n \in ModuleNames THEN "local" ELSE "unused"

LexicalIn(fs, rf, a, n) == rf[HomeIn(rf, fs, a, n) + 1].env[n]

(* Every frame, running or not, has the values Python says.  What a         *)
(* function reads, the function around it uses.                            *)
ReadsRight(V, fs, fr, rf) ==
    /\ \A i \in 1 .. Len(fr), n \in Names :
         RoleOf(fs, fr[i].fn, n) # "unused" /\ LexicalIn(fs, rf, fr[i].act, n) # NoVal =>
            V[i][n] = LexicalIn(fs, rf, fr[i].act, n)
    /\ \A n \in Names : n \notin ModuleNames => rf[1].env[n] = NoVal
    /\ \A k \in 1 .. Len(fs), n \in Names : fs[k].role[n] = "read" /\ fs[k].scope # Module =>
         fs[rf[fs[k].scope + 1].fn].role[n] # "unused"

Holds(V, vs, os, cs, fs, fr, rf) ==
    /\ Types(V, vs, os, cs, fs, fr, rf) /\ Chained(fs, fr, rf) /\ Restores(V, vs, fs, fr)
    /\ CellsHold(V, os, cs) /\ Refreshed(V, os, fs, fr) /\ ReadsRight(V, fs, fr, rf)

(* Functions whose names are apart leave the module's names alone, and no   *)
(* one has a cell for a name of a function.                                *)
Steady(V, os, fs, fr) ==
    /\ \A i \in 1 .. Len(fr), n \in Names :
         /\ n \in ModuleNames => V[i][n] = V[1][n]
         /\ n \notin ModuleNames => os[i][n] = 0 /\ V[1][n] = NoVal
    /\ \A k \in 1 .. Len(fs), n \in Names :
         fs[k].role[n] \in IF n \in ModuleNames THEN {"read", "unused"} ELSE {"param", "local", "unused"}
    /\ \A k \in 1 .. Len(fs), i \in 2 .. Len(fr), n \in ModuleNames \cap Names :
         fs[k].scope = fr[i].act => fs[k].closure[n] = V[1][n]

SteadyIn(p, V, os, fs, fr) == p.calls # "own" => Steady(V, os, fs, fr)

ScopeInv ==
    /\ program \in Programs
    /\ \E V : /\ Holds(V, variables, owners, cells, funs, frames, ref)
              /\ SteadyIn(program, V, owners, funs, frames)

-----------------------------------------------------------------------------
(* Homes *)

(* A set of numbers has a least one. *)
LEMMA LeastNumber ==
    ASSUME NEW T, T \subseteq Nat, T # {}
    PROVE  \E x \in T : \A y \in T : x <= y
<1>1. PICK x \in T : \A y \in T : ~ (<<y, x>> \in OpToRel(<, Nat))
  BY WFMin, NatLessThanWellFounded, Zenon
<1>2. ASSUME NEW y \in T PROVE x <= y
  <2>1. y \in Nat /\ x \in Nat
    OBVIOUS
  <2>2. y < x => <<y, x>> \in OpToRel(<, Nat)
    BY <2>1 DEF OpToRel
  <2>3. ~ (y < x)
    BY <1>1, <2>2, Zenon
  <2> QED
    BY <2>1, <2>3
<1> QED
  BY <1>2

(* One step of the search for a name's home. *)
Look(rf, fs, name, h, a) ==
    IF a = Module THEN Module
    ELSE IF fs[rf[a + 1].fn].role[name] \in {"param", "local"} THEN a
    ELSE IF fs[rf[a + 1].fn].role[name] = "global" THEN Module
    ELSE h[fs[rf[a + 1].fn].scope]

(* Scopes are older. *)
Older(rf, fs) ==
    \A a \in 1 .. (Len(rf) - 1) : fs[rf[a + 1].fn].scope \in 0 .. (a - 1)

(* The search is well-founded, so that there is a function it defines. *)
LEMMA HomeExists ==
    ASSUME NEW rf, NEW fs, NEW name, Len(rf) \in Nat, Older(rf, fs)
    PROVE  \E h : h = [a \in 0 .. (Len(rf) - 1) |-> Look(rf, fs, name, h, a)]
<1> DEFINE upTo(k, h) == h = [a \in 0 .. (k - 1) |-> Look(rf, fs, name, h, a)]
           bad == {k \in 0 .. Len(rf) : \A h : ~ upTo(k, h)}
<1>1. bad = {}
  <2> SUFFICES ASSUME bad # {} PROVE FALSE
    OBVIOUS
  <2>1. bad \subseteq Nat
    OBVIOUS
  <2>2. PICK k \in bad : \A y \in bad : k <= y
    BY <2>1, LeastNumber
  <2>3. k \in 0 .. Len(rf) /\ \A h : ~ upTo(k, h)
    OBVIOUS
  <2>4. CASE k = 0
    <3>1. upTo(0, [a \in {} |-> 0])
      OBVIOUS
    <3> QED
      BY <2>3, <2>4, <3>1
  <2>5. CASE k # 0
    <3>1. k - 1 \in 0 .. Len(rf) /\ k - 1 \notin bad
      BY <2>2, <2>3, <2>5
    <3>2. PICK h : upTo(k - 1, h)
      BY <3>1
    <3> DEFINE g == [a \in 0 .. (k - 1) |-> Look(rf, fs, name, h, a)]
    <3>3. \A a \in 0 .. (k - 2) : h[a] = g[a]
      BY <2>3, <2>5, <3>2
    <3>4. \A a \in 0 .. (k - 1) : Look(rf, fs, name, h, a) = Look(rf, fs, name, g, a)
      <4> SUFFICES ASSUME NEW a \in 0 .. (k - 1), a # 0
                   PROVE  Look(rf, fs, name, h, a) = Look(rf, fs, name, g, a)
        BY DEF Look, Module
      <4>1. a \in 1 .. (Len(rf) - 1)
        BY <2>3, <2>5
      <4>2. fs[rf[a + 1].fn].scope \in 0 .. (k - 2)
        BY <2>3, <2>5, <4>1 DEF Older
      <4> HIDE DEF g
      <4> QED
        BY <3>3, <4>2 DEF Look
    <3> HIDE DEF upTo
    <3>5. upTo(k, g)
      BY <3>4 DEF upTo
    <3> QED
      BY <2>3, <3>5
  <2> QED
    BY <2>4, <2>5
<1>2. Len(rf) \notin bad
  BY <1>1
<1> QED
  BY <1>2

(* What a name's home is, in terms of the home of the scope around. *)
LEMMA HomeStep ==
    ASSUME NEW rf, NEW fs, NEW name, Len(rf) \in Nat, Older(rf, fs), NEW a \in 0 .. (Len(rf) - 1)
    PROVE  HomeIn(rf, fs, a, name) =
             IF a = Module THEN Module
             ELSE IF fs[rf[a + 1].fn].role[name] \in {"param", "local"} THEN a
             ELSE IF fs[rf[a + 1].fn].role[name] = "global" THEN Module
             ELSE HomeIn(rf, fs, fs[rf[a + 1].fn].scope, name)
<1> DEFINE H == CHOOSE h : h = [b \in 0 .. (Len(rf) - 1) |-> Look(rf, fs, name, h, b)]
<1>1. \A b : HomeIn(rf, fs, b, name) = H[b]
  BY DEF HomeIn, Look
<1>2. H = [b \in 0 .. (Len(rf) - 1) |-> Look(rf, fs, name, H, b)]
  BY HomeExists, SMTT(30)
<1> HIDE DEF H
<1>3. H[a] = Look(rf, fs, name, H, a)
  BY <1>2
<1> QED
  BY <1>1, <1>3 DEF Look

(* A name's home is not younger than the activation that uses it. *)
LEMMA HomeOlder ==
    ASSUME NEW rf, NEW fs, NEW name, Len(rf) \in Nat, Older(rf, fs)
    PROVE  \A a \in 0 .. (Len(rf) - 1) : HomeIn(rf, fs, a, name) \in 0 .. a
<1> DEFINE bad == {a \in 0 .. (Len(rf) - 1) : HomeIn(rf, fs, a, name) \notin 0 .. a}
<1> SUFFICES ASSUME bad # {} PROVE FALSE
  OBVIOUS
<1>1. PICK a \in bad : \A y \in bad : a <= y
  <2>1. bad \subseteq Nat
    OBVIOUS
  <2> QED
    BY <2>1, LeastNumber
<1>2. a \in 0 .. (Len(rf) - 1) /\ HomeIn(rf, fs, a, name) \notin 0 .. a
  OBVIOUS
<1>3. CASE a = 0 \/ fs[rf[a + 1].fn].role[name] \in {"param", "local", "global"}
  BY <1>2, <1>3, HomeStep DEF Module
<1>4. CASE a # 0 /\ fs[rf[a + 1].fn].role[name] \notin {"param", "local", "global"}
  <2> DEFINE b == fs[rf[a + 1].fn].scope
  <2>1. b \in 0 .. (a - 1)
    BY <1>2, <1>4 DEF Older
  <2>2. b \notin bad /\ b \in 0 .. (Len(rf) - 1)
    BY <1>1, <1>2, <2>1
  <2>3. HomeIn(rf, fs, a, name) = HomeIn(rf, fs, b, name)
    BY <1>2, <1>4, HomeStep DEF Module
  <2> HIDE DEF b
  <2> QED
    BY <1>2, <2>1, <2>2, <2>3
<1> QED
  BY <1>3, <1>4

(* Homes stay where they are as functions are defined and called. *)
LEMMA HomeStays ==
    ASSUME NEW rf, NEW fs, NEW rf2, NEW fs2, NEW name,
           Len(rf) \in Nat, Len(rf2) \in Nat, Len(rf) <= Len(rf2), Older(rf, fs), Older(rf2, fs2),
           \A a \in 1 .. (Len(rf) - 1) : /\ rf2[a + 1].fn = rf[a + 1].fn
                                         /\ fs2[rf[a + 1].fn] = fs[rf[a + 1].fn]
    PROVE  \A a \in 0 .. (Len(rf) - 1) : HomeIn(rf2, fs2, a, name) = HomeIn(rf, fs, a, name)
<1> DEFINE bad == {a \in 0 .. (Len(rf) - 1) : HomeIn(rf2, fs2, a, name) # HomeIn(rf, fs, a, name)}
<1> SUFFICES ASSUME bad # {} PROVE FALSE
  OBVIOUS
<1>1. PICK a \in bad : \A y \in bad : a <= y
  <2>1. bad \subseteq Nat
    OBVIOUS
  <2> QED
    BY <2>1, LeastNumber
<1>2. /\ a \in 0 .. (Len(rf) - 1) /\ a \in 0 .. (Len(rf2) - 1)
      /\ HomeIn(rf2, fs2, a, name) # HomeIn(rf, fs, a, name)
  OBVIOUS
<1>3. a # 0
  BY <1>2, HomeStep DEF Module
<1> DEFINE b == fs[rf[a + 1].fn].scope
<1>4. rf2[a + 1].fn = rf[a + 1].fn /\ fs2[rf2[a + 1].fn] = fs[rf[a + 1].fn]
      /\ b \in 0 .. (a - 1) /\ b = fs2[rf2[a + 1].fn].scope
  BY <1>2, <1>3 DEF Older
<1>5. HomeIn(rf2, fs2, b, name) = HomeIn(rf, fs, b, name)
  <2>1. b \notin bad
    BY <1>1, <1>2, <1>4
  <2> QED
    BY <1>2, <1>4, <2>1
<1>6. HomeIn(rf, fs, a, name) =
             IF fs[rf[a + 1].fn].role[name] \in {"param", "local"} THEN a
             ELSE IF fs[rf[a + 1].fn].role[name] = "global" THEN Module
             ELSE HomeIn(rf, fs, b, name)
  BY <1>2, <1>3, HomeStep DEF Module
<1>7. HomeIn(rf2, fs2, a, name) =
             IF fs2[rf2[a + 1].fn].role[name] \in {"param", "local"} THEN a
             ELSE IF fs2[rf2[a + 1].fn].role[name] = "global" THEN Module
             ELSE HomeIn(rf2, fs2, b, name)
  BY <1>2, <1>3, <1>4, HomeStep DEF Module
<1> HIDE DEF b
<1> QED
  BY <1>2, <1>4, <1>5, <1>6, <1>7

-----------------------------------------------------------------------------
(* Steps *)

(* What the types say of single entries. *)
LEMMA EntryTypes ==
    ASSUME NEW V, NEW vs, NEW os, NEW cs, NEW fs, NEW fr, NEW rf, Types(V, vs, os, cs, fs, fr, rf)
    PROVE  /\ \A k \in 1 .. Len(fs) : fs[k] \in FunctionObjects
           /\ \A i \in 1 .. Len(fr) : /\ fr[i] \in Frames /\ V[i] \in Env /\ os[i] \in [Names -> Nat]
                                      /\ fr[i].fn \in Nat /\ fr[i].act \in Nat
           /\ \A a \in 1 .. Len(rf) : rf[a] \in Activations /\ rf[a].fn \in Nat /\ rf[a].env \in Env
           /\ \A c \in 1 .. Len(cs) : cs[c] \in Env
           /\ Len(fs) \in Nat /\ Len(fr) \in Nat /\ Len(rf) \in Nat /\ Len(cs) \in Nat
<1>1. /\ cs \in Seq(Env) /\ fs \in Seq(FunctionObjects) /\ fr \in Seq(Frames)
      /\ rf \in Seq(Activations) /\ os \in Seq([Names -> Nat]) /\ Len(os) = Len(fr)
      /\ V \in [1 .. Len(fr) -> Env]
  BY DEF Types
<1>2. Len(fs) \in Nat /\ Len(fr) \in Nat /\ Len(rf) \in Nat /\ Len(cs) \in Nat
  BY <1>1
<1>3. ASSUME NEW i \in 1 .. Len(fr)
      PROVE  fr[i] \in Frames /\ V[i] \in Env /\ os[i] \in [Names -> Nat]
  BY <1>1
<1>4. \A i \in 1 .. Len(fr) : fr[i].fn \in Nat /\ fr[i].act \in Nat
  BY <1>3 DEF Frames
<1>5. ASSUME NEW a \in 1 .. Len(rf)
      PROVE  rf[a] \in Activations /\ rf[a].fn \in Nat /\ rf[a].env \in Env
  <2>1. rf[a] \in Activations
    BY <1>1
  <2> QED
    BY <2>1 DEF Activations
<1>6. (\A k \in 1 .. Len(fs) : fs[k] \in FunctionObjects) /\ (\A c \in 1 .. Len(cs) : cs[c] \in Env)
  BY <1>1
<1> QED
  BY <1>2, <1>3, <1>4, <1>5, <1>6

(* The fields of a function object. *)
LEMMA FunctionTypes ==
    ASSUME NEW f \in FunctionObjects
    PROVE  /\ f.kind = "def" /\ f.role \in [Names -> ReadRoles] /\ f.level \in BOOLEAN
           /\ f.closure \in Env /\ f.refresh \in [Names -> Nat] /\ f.ncell = 0 /\ f.scope \in Nat
           /\ \A n \in Names : /\ f.role[n] \in ReadRoles /\ f.closure[n] \in Value
                               /\ f.refresh[n] \in Nat
BY DEF FunctionObjects, Env

(* Chained activations are ordered. *)
LEMMA ChainedOlder ==
    ASSUME NEW V, NEW vs, NEW os, NEW cs, NEW fs, NEW fr, NEW rf,
           Types(V, vs, os, cs, fs, fr, rf), Chained(fs, fr, rf)
    PROVE  Older(rf, fs)
<1> SUFFICES ASSUME NEW a \in 1 .. (Len(rf) - 1)
             PROVE  fs[rf[a + 1].fn].scope \in 0 .. (a - 1)
  BY DEF Older
<1>1. rf[a + 1].fn \in 1 .. Len(fs) /\ fs[rf[a + 1].fn].scope < a
  BY DEF Chained
<1>2. fs[rf[a + 1].fn].scope \in Nat
  BY <1>1, EntryTypes, FunctionTypes
<1> QED
  BY <1>1, <1>2

(* The invariant holds of a new interpreter. *)
LEMMA ScopeInit == Init => ScopeInv
<1> SUFFICES ASSUME Init PROVE ScopeInv
  OBVIOUS
<1> DEFINE V == [i \in 1 .. 1 |-> NoEnv]
<1>1. NoEnv \in Env /\ NoCells \in [Names -> Nat] /\ \A n \in Names : NoEnv[n] = NoVal /\ NoCells[n] = 0
  BY DEF NoEnv, NoCells, Env, Value
<1>2. /\ variables = NoEnv /\ owners = <<NoCells>> /\ cells = << >> /\ funs = << >>
      /\ frames = <<[fn |-> 0, act |-> 0, saved |-> [n \in {} |-> NoVal]]>>
      /\ ref = <<[fn |-> 0, env |-> NoEnv]>>
  BY DEF Init, Module
<1>3. [n \in {} |-> NoVal] \in Saves
  BY DEF Saves
<1>4. Types(V, variables, owners, cells, funs, frames, ref)
  BY <1>1, <1>2, <1>3 DEF Types, Frames, Activations
<1>5. Chained(funs, frames, ref)
  BY <1>2 DEF Chained, Module
<1>6. Restores(V, variables, funs, frames) /\ Refreshed(V, owners, funs, frames)
  BY <1>2 DEF Restores, Refreshed
<1>7. CellsHold(V, owners, cells)
  BY <1>1, <1>2 DEF CellsHold
<1>8. ReadsRight(V, funs, frames, ref)
  <2>1. Older(ref, funs) /\ Len(ref) = 1
    BY <1>2 DEF Older
  <2>2. \A n \in Names : HomeIn(ref, funs, 0, n) = 0
    BY <2>1, HomeStep DEF Module
  <2>3. \A n \in Names : LexicalIn(funs, ref, 0, n) = NoVal
    BY <1>1, <1>2, <2>2 DEF LexicalIn
  <2> QED
    BY <1>1, <1>2, <2>3 DEF ReadsRight
<1>9. program \in Programs /\ SteadyIn(program, V, owners, funs, frames)
  BY <1>1, <1>2 DEF Init, SteadyIn, Steady
<1> QED
  BY <1>4, <1>5, <1>6, <1>7, <1>8, <1>9 DEF ScopeInv, Holds

(* What the invariant says of the running frame. *)
LEMMA ScopeMeans == ScopeInv => LexicalReads /\ CellsAreLive
<1> SUFFICES ASSUME NEW V, Holds(V, variables, owners, cells, funs, frames, ref)
             PROVE  LexicalReads /\ CellsAreLive
  BY DEF ScopeInv
<1>1. /\ Types(V, variables, owners, cells, funs, frames, ref) /\ Chained(funs, frames, ref)
      /\ Restores(V, variables, funs, frames) /\ CellsHold(V, owners, cells)
      /\ ReadsRight(V, funs, frames, ref)
  BY DEF Holds
<1>2. Len(frames) \in 1 .. Len(frames) /\ Len(owners) = Len(frames)
  BY <1>1 DEF Types, Chained
<1>3. V[Len(frames)] = variables
  BY <1>1 DEF Restores
<1>4. LexicalReads
  <2> SUFFICES ASSUME NEW n \in Names, RoleIn(top, n) # "unused", Lexical(top.act, n) # NoVal
               PROVE  variables[n] = Lexical(top.act, n)
    BY DEF LexicalReads
  <2>1. RoleOf(funs, top.fn, n) = RoleIn(top, n)
    BY DEF RoleOf, RoleIn
  <2>2. LexicalIn(funs, ref, top.act, n) = Lexical(top.act, n)
    BY DEF LexicalIn, Lexical, Home
  <2> QED
    BY <1>1, <1>2, <1>3, <2>1, <2>2 DEF ReadsRight, top
<1>5. CellsAreLive
  BY <1>1, <1>2, <1>3 DEF CellsAreLive, CellsHold, owner
<1> QED
  BY <1>4, <1>5

(* Leaving a call uncovers the map of the frame below. *)
LEMMA ScopeLeave == ASSUME ScopeInv, Leave PROVE ScopeInv'
<1>1. PICK V : /\ Holds(V, variables, owners, cells, funs, frames, ref)
               /\ SteadyIn(program, V, owners, funs, frames)
  BY DEF ScopeInv
<1>2. /\ Types(V, variables, owners, cells, funs, frames, ref) /\ Chained(funs, frames, ref)
      /\ Restores(V, variables, funs, frames) /\ CellsHold(V, owners, cells)
      /\ Refreshed(V, owners, funs, frames) /\ ReadsRight(V, funs, frames, ref)
  BY <1>1 DEF Holds
<1> DEFINE L == Len(frames)
<1>3. L \in Nat /\ L > 1 /\ Len(owners) = L
  BY <1>2 DEF Leave, Types
<1>4. top.fn \in 1 .. Len(funs) /\ funs[top.fn] \in FunctionObjects
  BY <1>2, <1>3, EntryTypes DEF top, Chained
<1>5. /\ cells' = cells /\ funs' = funs /\ ref' = ref
      /\ variables' = [n \in Names |-> IF n \in DOMAIN top.saved THEN top.saved[n] ELSE variables[n]]
      /\ owners' = SubSeq(owners, 1, L - 1) /\ frames' = SubSeq(frames, 1, L - 1)
  BY <1>3, <1>4, FunctionTypes DEF Leave
<1> DEFINE W == [i \in 1 .. (L - 1) |-> V[i]]
<1>6. /\ Len(owners') = L - 1 /\ Len(frames') = L - 1
      /\ \A i \in 1 .. (L - 1) : owners'[i] = owners[i] /\ frames'[i] = frames[i] /\ W[i] = V[i]
  BY <1>2, <1>3, <1>5 DEF Types
<1>7. variables' = V[L - 1]
  <2>1. V[L] = variables /\ V[L - 1] \in Env /\ L \in 2 .. L /\ L - 1 \in 1 .. L
    BY <1>2, <1>3, EntryTypes DEF Restores
  <2>2. \A n \in Names : V[L - 1][n] = IF n \in DOMAIN top.saved THEN top.saved[n] ELSE variables[n]
    BY <1>2, <2>1 DEF Restores, top
  <2> QED
    BY <1>5, <2>1, <2>2 DEF Env
<1>8. Types(W, variables', owners', cells', funs', frames', ref')
  <2>1. \A i \in 1 .. L : V[i] \in Env
    BY <1>2, EntryTypes
  <2>2. W \in [1 .. (L - 1) -> Env] /\ variables' \in Env
    <3> HIDE DEF L
    <3> QED
      BY <1>3, <1>7, <2>1
  <2>3. owners' \in Seq([Names -> Nat]) /\ frames' \in Seq(Frames)
    BY <1>2, <1>3, <1>5 DEF Types
  <2> QED
    BY <1>2, <1>5, <1>6, <2>2, <2>3 DEF Types
<1> HIDE DEF W, L
<1>9. Chained(funs', frames', ref')
  BY <1>2, <1>3, <1>5, <1>6 DEF Chained, L
<1>10. Restores(W, variables', funs', frames')
  <2>1. W[Len(frames')] = variables'
    BY <1>3, <1>6, <1>7
  <2>2. ASSUME NEW i \in 2 .. (L - 1), NEW n \in Names
        PROVE  /\ W[i - 1][n] = IF n \in DOMAIN frames'[i].saved THEN frames'[i].saved[n] ELSE W[i][n]
               /\ funs[frames'[i].fn].role[n] \in {"param", "local"} => n \in DOMAIN frames'[i].saved
    <3>1. i - 1 \in 1 .. (L - 1) /\ i \in 1 .. (L - 1) /\ i \in 2 .. L
      BY <1>3
    <3>2. W[i - 1] = V[i - 1] /\ W[i] = V[i] /\ frames'[i] = frames[i]
      BY <1>6, <3>1
    <3> QED
      BY <1>2, <3>1, <3>2 DEF Restores, L
  <2> QED
    BY <1>5, <1>6, <2>1, <2>2 DEF Restores
<1>11. CellsHold(W, owners', cells')
  <2>1. \A i \in 1 .. (L - 1) : i \in 1 .. Len(owners) /\ owners'[i] = owners[i] /\ W[i] = V[i]
    BY <1>3, <1>6
  <2>2. cells' = cells /\ Len(owners') = L - 1
    BY <1>5, <1>6
  <2>3. \A i \in 1 .. Len(owners), n \in Names : owners[i][n] # 0 =>
           owners[i][n] \in 1 .. Len(cells) /\ V[i][n] # NoVal /\ cells[owners[i][n]][n] = V[i][n]
    BY <1>2 DEF CellsHold
  <2>4. \A i, j \in 1 .. Len(owners) : \A m, n \in Names :
           i # j /\ owners[i][m] # 0 => owners[i][m] # owners[j][n]
    BY <1>2 DEF CellsHold
  <2>5. \A i \in 1 .. Len(owners'), n \in Names : owners'[i][n] # 0 =>
           owners'[i][n] \in 1 .. Len(cells') /\ W[i][n] # NoVal /\ cells'[owners'[i][n]][n] = W[i][n]
    BY <2>1, <2>2, <2>3
  <2>6. \A i, j \in 1 .. Len(owners') : \A m, n \in Names :
           i # j /\ owners'[i][m] # 0 => owners'[i][m] # owners'[j][n]
    BY <2>1, <2>2, <2>4
  <2> QED
    BY <2>5, <2>6 DEF CellsHold
<1>12. Refreshed(W, owners', funs', frames')
  <2>1. \A i \in 1 .. (L - 1) : /\ i \in 1 .. Len(frames) /\ frames'[i] = frames[i]
                                 /\ owners'[i] = owners[i] /\ W[i] = V[i]
    BY <1>3, <1>6 DEF L
  <2>2. funs' = funs /\ Len(frames') = L - 1
    BY <1>5, <1>6
  <2>3. Refreshed(V, owners, funs, frames)
    BY <1>2
  <2> QED
    BY <2>1, <2>2, <2>3 DEF Refreshed
<1>13. ReadsRight(W, funs', frames', ref')
  <2>1. \A i \in 1 .. (L - 1) : i \in 1 .. Len(frames) /\ frames'[i] = frames[i] /\ W[i] = V[i]
    BY <1>3, <1>6 DEF L
  <2>2. funs' = funs /\ ref' = ref /\ Len(frames') = L - 1
    BY <1>5, <1>6
  <2>3. \A i \in 1 .. Len(frames), n \in Names :
           RoleOf(funs, frames[i].fn, n) # "unused" /\ LexicalIn(funs, ref, frames[i].act, n) # NoVal =>
              V[i][n] = LexicalIn(funs, ref, frames[i].act, n)
    BY <1>2 DEF ReadsRight
  <2>4. \A i \in 1 .. Len(frames'), n \in Names :
           RoleOf(funs', frames'[i].fn, n) # "unused" /\ LexicalIn(funs', ref', frames'[i].act, n) # NoVal
              => W[i][n] = LexicalIn(funs', ref', frames'[i].act, n)
    BY <2>1, <2>2, <2>3
  <2> QED
    BY <1>2, <2>2, <2>4 DEF ReadsRight
<1>14. program' = program /\ program \in Programs
  BY DEF Leave, ScopeInv
<1>15. SteadyIn(program', W, owners', funs', frames')
  <2> SUFFICES ASSUME program.calls # "own" PROVE Steady(W, owners', funs', frames')
    BY <1>14 DEF SteadyIn
  <2>1. Steady(V, owners, funs, frames)
    BY <1>1 DEF SteadyIn
  <2>2. \A i \in 1 .. (L - 1) : /\ i \in 1 .. Len(frames) /\ (i # 1 => i \in 2 .. Len(frames))
                                /\ frames'[i] = frames[i] /\ W[i] = V[i] /\ owners'[i] = owners[i]
    BY <1>3, <1>6 DEF L
  <2>3. W[1] = V[1] /\ 1 \in 1 .. (L - 1)
    BY <1>3, <1>6
  <2>4. \A i \in 2 .. (L - 1) : i \in 1 .. (L - 1) /\ i # 1
    BY <1>3
  <2>5. \A i \in 1 .. (L - 1), n \in Names :
           /\ n \in ModuleNames => W[i][n] = W[1][n]
           /\ n \notin ModuleNames => owners'[i][n] = 0 /\ W[1][n] = NoVal
    BY <2>1, <2>2, <2>3 DEF Steady
  <2>6. \A k \in 1 .. Len(funs), i \in 2 .. (L - 1), n \in ModuleNames \cap Names :
           funs[k].scope = frames'[i].act => funs[k].closure[n] = W[1][n]
    BY <2>1, <2>2, <2>3, <2>4 DEF Steady
  <2>7. funs' = funs /\ Len(frames') = L - 1
    BY <1>5, <1>6
  <2> QED
    BY <2>1, <2>5, <2>6, <2>7 DEF Steady
<1> QED
  BY <1>8, <1>9, <1>10, <1>11, <1>12, <1>13, <1>14, <1>15 DEF ScopeInv, Holds

(* Assigning to a name the running frame binds reaches the frame's cell,    *)
(* no other frame's, and none of the frames below.                         *)
LEMMA ScopeAssign ==
    ASSUME ScopeInv, NEW n \in Names, NEW v \in Vals, Assign(n, v)
    PROVE  ScopeInv'
<1>1. PICK V : /\ Holds(V, variables, owners, cells, funs, frames, ref)
               /\ SteadyIn(program, V, owners, funs, frames)
  BY DEF ScopeInv
<1>2. /\ Types(V, variables, owners, cells, funs, frames, ref) /\ Chained(funs, frames, ref)
      /\ Restores(V, variables, funs, frames) /\ CellsHold(V, owners, cells)
      /\ Refreshed(V, owners, funs, frames) /\ ReadsRight(V, funs, frames, ref)
  BY <1>1 DEF Holds
<1> DEFINE L == Len(frames)
<1>3. /\ L \in Nat /\ L >= 1 /\ Len(owners) = L /\ L \in 1 .. L
      /\ variables \in Env /\ V[L] = variables /\ V \in [1 .. L -> Env]
      /\ Len(ref) \in Nat /\ Len(ref) >= 1 /\ Len(cells) \in Nat
  BY <1>2 DEF Types, Chained, Restores
<1>4. /\ variables' = [variables EXCEPT ![n] = v] /\ cells' = WriteThrough(cells, n, v)
      /\ ref' = [ref EXCEPT ![Home(top.act, n) + 1].env[n] = v]
      /\ owners' = owners /\ funs' = funs /\ frames' = frames
      /\ RoleIn(top, n) \in {"param", "local", "global", "nonlocal"}
  BY DEF Assign
<1>5. v # NoVal /\ v \in Value
  BY ScopesAssumption DEF Value
<1>6. /\ variables' \in Env /\ variables'[n] = v
      /\ \A m \in Names : m # n => variables'[m] = variables[m]
  BY <1>3, <1>4, <1>5 DEF Env
<1>7. owners[L] \in [Names -> Nat] /\ owner = owners[L] /\ owner[n] \in Nat
  BY <1>2, <1>3, EntryTypes DEF owner
<1>8. /\ cells' \in Seq(Env) /\ Len(cells') = Len(cells)
      /\ \A c \in 1 .. Len(cells), m \in Names :
           cells'[c][m] = IF c = owner[n] /\ m = n THEN v ELSE cells[c][m]
  <2>1. cells \in Seq(Env) /\ \A c \in 1 .. Len(cells) : cells[c] \in Env
    BY <1>2, EntryTypes DEF Types
  <2>2. CASE owner[n] = 0
    BY <1>4, <2>1, <2>2 DEF WriteThrough
  <2>3. CASE owner[n] # 0
    <3>1. owner[n] \in 1 .. Len(cells)
      BY <1>2, <1>3, <1>7, <2>3 DEF CellsHold
    <3> DEFINE c0 == owner[n]
               e == [cells[c0] EXCEPT ![n] = v]
    <3>2. cells' = [cells EXCEPT ![c0] = e]
      BY <1>4, <2>3 DEF WriteThrough
    <3>3. e \in Env /\ \A m \in Names : e[m] = IF m = n THEN v ELSE cells[c0][m]
      BY <1>5, <2>1, <3>1 DEF Env
    <3> HIDE DEF e
    <3> QED
      BY <2>1, <3>1, <3>2, <3>3
  <2> QED
    BY <2>2, <2>3
<1>9. /\ top = frames[L] /\ top.act \in 0 .. (Len(ref) - 1) /\ top.fn \in Nat
      /\ top.fn # Module => /\ L >= 2 /\ top.fn \in 1 .. Len(funs)
                            /\ ref[top.act + 1].fn = top.fn /\ top.act # 0
                            /\ funs[top.fn].role[n] \in {"param", "local"}
      /\ top.fn = Module => top.act = 0 /\ n \in ModuleNames
  <2>1. top = frames[L] /\ top.fn \in Nat /\ top.act \in Nat
    BY <1>2, <1>3, EntryTypes DEF top
  <2>2. CASE L = 1
    BY <1>2, <1>3, <1>4, <2>1, <2>2 DEF Chained, RoleIn, Module
  <2>3. CASE L # 1
    <3>1. /\ L \in 2 .. L /\ top.fn \in 1 .. Len(funs) /\ top.act \in 1 .. (Len(ref) - 1)
          /\ ref[top.act + 1].fn = top.fn
      BY <1>2, <1>3, <2>1, <2>3 DEF Chained
    <3>2. funs[top.fn].role[n] \in ReadRoles
      BY <1>2, <3>1, EntryTypes, FunctionTypes
    <3> QED
      BY <1>4, <2>1, <3>1, <3>2 DEF RoleIn, Module, ReadRoles
  <2> QED
    BY <2>2, <2>3
<1>10. Older(ref, funs)
  BY <1>2, ChainedOlder
<1>11. Home(top.act, n) = top.act
  BY <1>3, <1>9, <1>10, HomeStep, SMTT(30) DEF Home, Module
<1>12. /\ ref' \in Seq(Activations) /\ Len(ref') = Len(ref)
       /\ \A a \in 1 .. Len(ref) : ref'[a].fn = ref[a].fn
       /\ \A a \in 1 .. Len(ref), m \in Names :
            ref'[a].env[m] = IF a = top.act + 1 /\ m = n THEN v ELSE ref[a].env[m]
  <2> DEFINE a0 == top.act + 1
             env == [ref[a0].env EXCEPT ![n] = v]
             act == [ref[a0] EXCEPT !.env = env]
  <2>1. ref' = [ref EXCEPT ![a0] = act]
    BY <1>4, <1>11
  <2>2. /\ a0 \in 1 .. Len(ref) /\ ref \in Seq(Activations) /\ ref[a0] \in Activations
        /\ ref[a0].env \in Env
    <3>1. a0 \in 1 .. Len(ref) /\ ref \in Seq(Activations)
      BY <1>2, <1>3, <1>9, SMTT(30) DEF Types
    <3> HIDE DEF a0
    <3> QED
      BY <1>2, <3>1, EntryTypes
  <2>3. env \in Env /\ \A m \in Names : env[m] = IF m = n THEN v ELSE ref[a0].env[m]
    BY <1>5, <2>2 DEF Env
  <2> HIDE DEF env
  <2>4. act \in Activations /\ act.fn = ref[a0].fn /\ act.env = env
    BY <2>2, <2>3 DEF Activations
  <2> HIDE DEF act, a0
  <2>5. \A a \in 1 .. Len(ref) : ref'[a] = IF a = a0 THEN act ELSE ref[a]
    BY <2>1, <2>2
  <2>6. ref' \in Seq(Activations) /\ Len(ref') = Len(ref)
    BY <2>1, <2>2, <2>4
  <2> QED
    BY <2>3, <2>4, <2>5, <2>6 DEF a0
<1> DEFINE W == [V EXCEPT ![L] = variables']
<1>13. /\ W \in [1 .. L -> Env] /\ W[L] = variables'
       /\ \A i \in 1 .. L : i # L => W[i] = V[i]
       /\ \A i \in 1 .. L, m \in Names : m # n => W[i][m] = V[i][m]
  BY <1>3, <1>6
<1> HIDE DEF W
<1>14. Types(W, variables', owners', cells', funs', frames', ref')
  BY <1>2, <1>4, <1>6, <1>8, <1>12, <1>13 DEF Types
<1>15. Chained(funs', frames', ref')
  BY <1>2, <1>3, <1>4, <1>12 DEF Chained
<1> HIDE DEF L
<1>16. Restores(W, variables', funs', frames')
  <2>1. ASSUME NEW i \in 2 .. L, NEW m \in Names
        PROVE  W[i - 1][m] = IF m \in DOMAIN frames[i].saved THEN frames[i].saved[m] ELSE W[i][m]
    <3>1. i - 1 \in 1 .. L /\ i \in 1 .. L /\ i - 1 # L
      BY <1>3
    <3>2. V[i - 1][m] = IF m \in DOMAIN frames[i].saved THEN frames[i].saved[m] ELSE V[i][m]
      BY <1>2 DEF Restores, L
    <3>3. CASE m # n \/ i # L
      BY <1>13, <3>1, <3>2, <3>3
    <3>4. CASE m = n /\ i = L
      <4>1. top.fn # Module
        <5>1. frames[i].fn \in 1 .. Len(funs)
          BY <1>2 DEF Chained, L
        <5> QED
          BY <1>9, <3>4, <5>1 DEF Module
      <4>2. n \in DOMAIN frames[i].saved
        BY <1>2, <1>9, <3>4, <4>1 DEF Restores, L
      <4> QED
        BY <1>13, <3>1, <3>2, <3>4, <4>2
    <3> QED
      BY <3>3, <3>4
  <2> QED
    BY <1>2, <1>4, <1>13, <2>1 DEF Restores, L
<1>17. CellsHold(W, owners', cells')
  <2>1. ASSUME NEW i \in 1 .. L, NEW m \in Names, owners[i][m] # 0
        PROVE  /\ owners[i][m] \in 1 .. Len(cells) /\ W[i][m] # NoVal
               /\ cells'[owners[i][m]][m] = W[i][m]
    <3>1. /\ owners[i][m] \in 1 .. Len(cells) /\ V[i][m] # NoVal
          /\ cells[owners[i][m]][m] = V[i][m]
      BY <1>2, <1>3, <2>1 DEF CellsHold
    <3>2. CASE i # L
      <4>1. owners[i][m] # owner[n]
        BY <1>2, <1>3, <1>7, <2>1, <3>2 DEF CellsHold
      <4> QED
        BY <1>8, <1>13, <3>1, <3>2, <4>1
    <3>3. CASE i = L /\ m = n
      BY <1>5, <1>6, <1>7, <1>8, <1>13, <3>1, <3>3
    <3>4. CASE i = L /\ m # n
      BY <1>8, <1>13, <3>1, <3>4
    <3> QED
      BY <3>2, <3>3, <3>4
  <2> QED
    BY <1>2, <1>3, <1>4, <1>8, <2>1 DEF CellsHold
<1>18. Refreshed(W, owners', funs', frames')
  <2>1. \A i \in 1 .. L, m \in Names : V[i][m] # NoVal => W[i][m] # NoVal
    BY <1>3, <1>5, <1>6, <1>13
  <2> QED
    BY <1>2, <1>4, <2>1 DEF Refreshed, L
<1>19. ReadsRight(W, funs', frames', ref')
  <2>1. Older(ref', funs')
    BY <1>14, <1>15, ChainedOlder
  <2>2. \A a \in 0 .. (Len(ref) - 1), m \in Names : HomeIn(ref', funs', a, m) = HomeIn(ref, funs, a, m)
    <3>1. \A a \in 1 .. (Len(ref) - 1) : /\ ref'[a + 1].fn = ref[a + 1].fn
                                         /\ funs'[ref[a + 1].fn] = funs[ref[a + 1].fn]
      BY <1>3, <1>4, <1>12
    <3>2. Len(ref') \in Nat /\ Len(ref) <= Len(ref')
      BY <1>3, <1>12
    <3>3. ASSUME NEW m \in Names
          PROVE  \A a \in 0 .. (Len(ref) - 1) : HomeIn(ref', funs', a, m) = HomeIn(ref, funs, a, m)
      BY <1>3, <1>10, <2>1, <3>1, <3>2, HomeStays
    <3> QED
      BY <3>3
  <2>3. ASSUME NEW i \in 1 .. L, NEW m \in Names, RoleOf(funs, frames[i].fn, m) # "unused",
               LexicalIn(funs', ref', frames[i].act, m) # NoVal
        PROVE  W[i][m] = LexicalIn(funs', ref', frames[i].act, m)
    <3> DEFINE a == frames[i].act
               b == HomeIn(ref, funs, a, m)
    <3>1. a \in 0 .. (Len(ref) - 1) /\ (i # L => a < top.act)
      <4>1. a \in Nat /\ i \in 1 .. Len(frames)
        BY <1>2, EntryTypes DEF L
      <4>2. i # L => a < top.act
        BY <1>2, <1>3, <1>9 DEF Chained, L
      <4> QED
        BY <1>9, <4>1, <4>2
    <3>2. b \in 0 .. a
      BY <1>3, <1>10, <3>1, HomeOlder
    <3>3. LexicalIn(funs', ref', a, m) = ref'[b + 1].env[m] /\ LexicalIn(funs, ref, a, m) = ref[b + 1].env[m]
      BY <2>2, <3>1 DEF LexicalIn
    <3>4. LexicalIn(funs, ref, a, m) # NoVal => V[i][m] = LexicalIn(funs, ref, a, m)
      BY <1>2, <2>3 DEF ReadsRight, L
    <3> HIDE DEF b
    <3>5. b + 1 \in 1 .. Len(ref)
      BY <1>3, <3>1, <3>2
    <3>6. CASE m # n
      <4>1. ref'[b + 1].env[m] = ref[b + 1].env[m]
        BY <1>12, <3>5, <3>6
      <4> QED
        BY <1>13, <2>3, <3>3, <3>4, <3>6, <4>1
    <3>7. CASE m = n /\ i # L
      <4>1. b # top.act
        BY <1>9, <3>1, <3>2, <3>7
      <4>2. ref'[b + 1].env[m] = ref[b + 1].env[m]
        BY <1>9, <1>12, <3>1, <3>2, <3>5, <4>1, SMTT(30)
      <4> QED
        BY <1>13, <2>3, <3>3, <3>4, <3>7, <4>2
    <3>8. CASE m = n /\ i = L
      <4>1. b = top.act
        BY <1>9, <1>11, <3>8 DEF b, Home
      <4> QED
        BY <1>6, <1>12, <1>13, <3>3, <3>5, <3>8, <4>1
    <3> QED
      BY <3>6, <3>7, <3>8
  <2>4. ASSUME NEW m \in Names, m \notin ModuleNames PROVE ref'[1].env[m] = NoVal
    <3>1. ref[1].env[m] = NoVal /\ 1 \in 1 .. Len(ref)
      BY <1>2, <1>3, <2>4 DEF ReadsRight
    <3>2. ~ (1 = top.act + 1 /\ m = n)
      BY <1>9, <2>4 DEF Module
    <3> QED
      BY <1>12, <3>1, <3>2
  <2>5. ASSUME NEW k \in 1 .. Len(funs), NEW m \in Names, funs[k].role[m] = "read",
               funs[k].scope # Module
        PROVE  funs[ref'[funs[k].scope + 1].fn].role[m] # "unused"
    <3>1. funs[k].scope + 1 \in 1 .. Len(ref)
      BY <1>2, <1>3 DEF Chained
    <3> QED
      BY <1>2, <1>12, <2>5, <3>1 DEF ReadsRight
  <2> QED
    BY <1>4, <2>3, <2>4, <2>5, ZenonT(30) DEF ReadsRight, L
<1>20. program' = program /\ program \in Programs
  BY DEF Assign, ScopeInv
<1>21. SteadyIn(program', W, owners', funs', frames')
  <2> SUFFICES ASSUME program.calls # "own" PROVE Steady(W, owners, funs, frames)
    BY <1>4, <1>20 DEF SteadyIn
  <2>1. Steady(V, owners, funs, frames)
    BY <1>1 DEF SteadyIn
  <2>2. CASE L = 1
    <3>1. n \in ModuleNames /\ \A m \in Names : m # n => W[1][m] = V[1][m]
      <4>1. top.fn = Module
        BY <1>9, <2>2
      <4> QED
        BY <1>3, <1>9, <1>13, <4>1
    <3>2. \A i \in 1 .. Len(frames) : i = 1
      BY <2>2 DEF L
    <3>3. 2 .. Len(frames) = {}
      BY <2>2 DEF L
    <3>4. \A m \in Names : m \notin ModuleNames => owners[1][m] = 0 /\ V[1][m] = NoVal
      BY <1>3, <2>1 DEF Steady, L
    <3>5. \A m \in Names : m \notin ModuleNames => W[1][m] = NoVal
      BY <3>1, <3>4
    <3> QED
      BY <2>1, <3>2, <3>3, <3>4, <3>5 DEF Steady
  <2>3. CASE L # 1
    <3>1. n \notin ModuleNames
      <4>1. L \in 2 .. L
        BY <1>3, <2>3
      <4>2. frames[L].fn \in 1 .. Len(funs)
        BY <1>2, <4>1 DEF Chained, L
      <4>3. top.fn # Module
        BY <1>9, <4>2 DEF Module
      <4> QED
        BY <1>9, <2>1, <4>3 DEF Steady
    <3>2. W[1] = V[1] /\ \A i \in 1 .. L, m \in Names : m \in ModuleNames => W[i][m] = V[i][m]
      BY <1>3, <1>13, <2>3, <3>1
    <3> QED
      BY <2>1, <3>2 DEF Steady, L
  <2> QED
    BY <2>2, <2>3
<1> QED
  BY <1>14, <1>15, <1>16, <1>17, <1>18, <1>19, <1>20, <1>21 DEF ScopeInv, Holds

(* A def without nonlocal names. *)
LEMMA DefStep ==
    ASSUME OnlyReads(program), NEW role \in program.shapes, eval_function_def(role)
    PROVE  \E ids \in NewIds(Captured(role)) :
              Define("def", role, Captures(role, ids), 0,
                     [n \in Names |-> IF variables[n] # NoVal THEN Captures(role, ids).ow[n] ELSE 0])
<1>1. {n \in Names : role[n] = "nonlocal"} = {}
  BY DEF OnlyReads, ReadRoles
<1> QED
  BY <1>1 DEF eval_function_def

(* The new cells. *)
LEMMA CaptureFacts ==
    ASSUME NEW role, NEW ids \in NewIds(Captured(role)), cells \in Seq(Env), variables \in Env,
           owner \in [Names -> Nat]
    PROVE  LET cap == Captures(role, ids) IN
           /\ cap.cs \in Seq(Env) /\ Len(cells) <= Len(cap.cs) /\ cap.ow \in [Names -> Nat]
           /\ \A c \in 1 .. Len(cells) : cap.cs[c] = cells[c]
           /\ \A n \in Names \ Captured(role) : cap.ow[n] = owner[n]
           /\ \A n \in Captured(role) : /\ cap.ow[n] \in (Len(cells) + 1) .. Len(cap.cs)
                                        /\ cap.cs[cap.ow[n]][n] = variables[n]
<1> DEFINE S == Captured(role)
           C == Cardinality(S)
           new == [i \in 1 .. Cardinality(DOMAIN ids) |->
                     [n \in Names |-> IF n \in DOMAIN ids /\ ids[n] = Len(cells) + i
                                      THEN variables[n] ELSE NoVal]]
           ow == [n \in Names |-> IF n \in DOMAIN ids THEN ids[n] ELSE owner[n]]
<1>1. S \subseteq Names /\ IsFiniteSet(S) /\ C \in Nat
  <2>1. S \subseteq Names
    BY DEF Captured
  <2> QED
    BY <2>1, ScopesAssumption, FS_Subset, FS_CardinalityType
<1>2. ids \in [S -> Len(cells) + 1 .. Len(cells) + C] /\ DOMAIN ids = S /\ Len(cells) \in Nat
  BY DEF NewIds
<1> HIDE DEF S, C
<1>3. new \in [1 .. C -> Env]
  BY <1>2 DEF Env, Value, C
<1>4. new \in Seq(Env) /\ Len(new) = C
  <2> HIDE DEF new
  <2> QED
    BY <1>1, <1>3
<1>5. Captures(role, ids).cs = cells \o new /\ Captures(role, ids).ow = ow
  BY DEF Captures
<1>6. \A n \in S : ids[n] \in (Len(cells) + 1) .. (Len(cells) + C)
  BY <1>2
<1>7. ow \in [Names -> Nat] /\ (\A n \in Names \ S : ow[n] = owner[n]) /\ \A n \in S : ow[n] = ids[n]
  BY <1>1, <1>2, <1>6
<1>8. ASSUME NEW n \in S PROVE (cells \o new)[ids[n]][n] = variables[n]
  <2> DEFINE i == ids[n] - Len(cells)
  <2>1. i \in 1 .. C /\ ids[n] = Len(cells) + i
    BY <1>1, <1>2, <1>6
  <2>2. new[i][n] = variables[n]
    BY <1>1, <1>2, <2>1 DEF C
  <2> HIDE DEF i, new
  <2>3. (cells \o new)[Len(cells) + i] = new[i]
    BY <1>2, <1>4, <2>1
  <2> QED
    BY <2>1, <2>2, <2>3
<1> HIDE DEF new, ow
<1>9. /\ cells \o new \in Seq(Env) /\ Len(cells \o new) = Len(cells) + C
      /\ \A c \in 1 .. Len(cells) : (cells \o new)[c] = cells[c]
  <2>1. /\ cells \o new \in Seq(Env) /\ Len(cells \o new) = Len(cells) + Len(new)
        /\ \A c \in 1 .. (Len(cells) + Len(new)) :
              (cells \o new)[c] = IF c <= Len(cells) THEN cells[c] ELSE new[c - Len(cells)]
    BY <1>4, ConcatProperties
  <2>2. \A c \in 1 .. Len(cells) : c \in 1 .. (Len(cells) + C) /\ c <= Len(cells)
    BY <1>1, <1>2
  <2> QED
    BY <1>4, <2>1, <2>2
<1> QED
  BY <1>1, <1>2, <1>5, <1>6, <1>7, <1>8, <1>9 DEF S

(* A new function captures the running frame, whose cells are its own. *)
LEMMA ScopeDef ==
    ASSUME OnlyReads(program), ScopeInv, NEW role \in program.shapes, eval_function_def(role)
    PROVE  ScopeInv'
<1>1. PICK V : /\ Holds(V, variables, owners, cells, funs, frames, ref)
               /\ SteadyIn(program, V, owners, funs, frames)
  BY DEF ScopeInv
<1>2. /\ Types(V, variables, owners, cells, funs, frames, ref) /\ Chained(funs, frames, ref)
      /\ Restores(V, variables, funs, frames) /\ CellsHold(V, owners, cells)
      /\ Refreshed(V, owners, funs, frames) /\ ReadsRight(V, funs, frames, ref)
  BY <1>1 DEF Holds
<1> DEFINE L == Len(frames)
           K == Len(funs)
<1>3. /\ L \in Nat /\ L >= 1 /\ Len(owners) = L /\ L \in 1 .. L /\ K \in Nat
      /\ variables \in Env /\ V[L] = variables /\ cells \in Seq(Env) /\ Len(cells) \in Nat
      /\ owners \in Seq([Names -> Nat]) /\ owner = owners[L] /\ owner \in [Names -> Nat]
      /\ Len(ref) \in Nat /\ Len(ref) >= 1 /\ funs \in Seq(FunctionObjects)
  <2>1. L >= 1 /\ Len(ref) >= 1 /\ V[L] = variables
    BY <1>2 DEF Chained, Restores
  <2>2. owners \in Seq([Names -> Nat]) /\ Len(owners) = L /\ L \in Nat
    BY <1>2 DEF Types
  <2>3. owners[L] \in [Names -> Nat]
    BY <2>1, <2>2
  <2> QED
    BY <1>2, <2>1, <2>2, <2>3 DEF Types, owner
<1>4. PICK ids \in NewIds(Captured(role)) :
              Define("def", role, Captures(role, ids), 0,
                     [n \in Names |-> IF variables[n] # NoVal THEN Captures(role, ids).ow[n] ELSE 0])
  BY DefStep
<1> DEFINE cs == Captures(role, ids).cs
           ow == Captures(role, ids).ow
           fresh == [n \in Names |-> IF variables[n] # NoVal THEN ow[n] ELSE 0]
           f == [kind |-> "def", role |-> role, level |-> Len(frames) = 1, closure |-> variables,
                 refresh |-> fresh, ncell |-> 0, scope |-> top.act]
<1>5. /\ cells' = cs /\ owners' = [owners EXCEPT ![L] = ow] /\ funs' = Append(funs, f)
      /\ variables' = variables /\ frames' = frames /\ ref' = ref
  BY <1>3, <1>4 DEF Define
<1>6. /\ cs \in Seq(Env) /\ Len(cells) <= Len(cs) /\ ow \in [Names -> Nat]
      /\ \A c \in 1 .. Len(cells) : cs[c] = cells[c]
      /\ \A n \in Names \ Captured(role) : ow[n] = owner[n]
      /\ \A n \in Captured(role) : ow[n] \in (Len(cells) + 1) .. Len(cs) /\ cs[ow[n]][n] = variables[n]
  BY <1>3, CaptureFacts
<1>7. /\ role \in [Names -> ReadRoles] /\ WellFormed(role)
      /\ top = frames[L] /\ top.act \in Nat /\ top.fn \in Nat
  BY <1>2, <1>3, EntryTypes DEF OnlyReads, eval_function_def, top
<1> HIDE DEF cs, ow
<1>8. fresh \in [Names -> Nat] /\ \A n \in Names : fresh[n] = IF variables[n] # NoVal THEN ow[n] ELSE 0
  BY <1>6
<1> HIDE DEF fresh
<1>9. /\ f \in FunctionObjects /\ f.role = role /\ f.closure = variables /\ f.refresh = fresh
      /\ f.scope = top.act /\ f.level = (L = 1)
  BY <1>3, <1>7, <1>8 DEF FunctionObjects
<1> HIDE DEF f
<1>10. /\ funs' \in Seq(FunctionObjects) /\ Len(funs') = K + 1 /\ funs'[K + 1] = f
       /\ \A k \in 1 .. K : funs'[k] = funs[k]
  BY <1>3, <1>5, <1>9
<1>11. /\ owners' \in Seq([Names -> Nat]) /\ Len(owners') = L /\ owners'[L] = ow
       /\ \A i \in 1 .. L : i # L => owners'[i] = owners[i]
  <2> HIDE DEF L
  <2> QED
    BY <1>3, <1>5, <1>6
<1>12. Types(V, variables', owners', cells', funs', frames', ref')
  BY <1>2, <1>5, <1>6, <1>10, <1>11 DEF Types
<1>13. \A i \in 1 .. L : /\ frames[i].fn \in Nat /\ frames[i].act \in 0 .. (Len(ref) - 1)
                         /\ frames[i].fn # Module => frames[i].fn \in 1 .. K
                         /\ frames[i].act = top.act => i = L
                         /\ frames[i].fn = Module <=> i = 1
                         /\ frames[i].act = Module <=> i = 1
                         /\ i # 1 => ref[frames[i].act + 1].fn = frames[i].fn
  <2> SUFFICES ASSUME NEW i \in 1 .. L
               PROVE  /\ frames[i].fn \in Nat /\ frames[i].act \in 0 .. (Len(ref) - 1)
                      /\ frames[i].fn # Module => frames[i].fn \in 1 .. K
                      /\ frames[i].act = top.act => i = L
                      /\ frames[i].fn = Module <=> i = 1
                      /\ frames[i].act = Module <=> i = 1
                      /\ i # 1 => ref[frames[i].act + 1].fn = frames[i].fn
    OBVIOUS
  <2>1. frames[i].fn \in Nat /\ frames[i].act \in Nat
    BY <1>2, EntryTypes
  <2>2. i # 1 => /\ frames[i].fn \in 1 .. K /\ frames[i].act \in 1 .. (Len(ref) - 1)
                 /\ ref[frames[i].act + 1].fn = frames[i].fn
    BY <1>2, <1>3 DEF Chained
  <2>3. i # L => frames[i].act < frames[L].act
    BY <1>2, <1>3 DEF Chained
  <2>4. i = 1 => frames[i].fn = 0 /\ frames[i].act = 0
    BY <1>2 DEF Chained, Module
  <2>5. frames[i].act = top.act => i = L
    BY <1>7, <2>1, <2>3
  <2> QED
    BY <1>3, <2>1, <2>2, <2>4, <2>5 DEF Module
<1>14. Chained(funs', frames', ref')
  <2>6. /\ \A i \in 2 .. L : frames[i].fn \in 1 .. K
        /\ \A a \in 1 .. (Len(ref) - 1) : ref[a + 1].fn \in 1 .. K /\ funs[ref[a + 1].fn].scope < a
    BY <1>2 DEF Chained
  <2>7. \A k \in 1 .. K : k \in 1 .. Len(funs')
    <3> HIDE DEF K
    <3> QED
      BY <1>3, <1>10
  <2>1. \A i \in 2 .. L : frames[i].fn \in 1 .. Len(funs')
    <3> HIDE DEF K, L
    <3> QED
      BY <1>10, <2>6, <2>7
  <2>2. \A a \in 1 .. (Len(ref) - 1) : /\ ref[a + 1].fn \in 1 .. Len(funs')
                                       /\ funs'[ref[a + 1].fn].scope < a
    <3> HIDE DEF K, L
    <3> QED
      BY <1>10, <2>6, <2>7
  <2>3. \A k \in 1 .. K : /\ funs[k].scope \in 0 .. (Len(ref) - 1)
                          /\ funs[k].level <=> funs[k].scope = Module
    BY <1>2 DEF Chained
  <2>4. f.scope \in 0 .. (Len(ref) - 1) /\ (f.level <=> f.scope = Module)
    BY <1>3, <1>7, <1>9, <1>13
  <2>5. \A k \in 1 .. Len(funs') : /\ funs'[k].scope \in 0 .. (Len(ref) - 1)
                                   /\ funs'[k].level <=> funs'[k].scope = Module
    <3> HIDE DEF K, L
    <3> SUFFICES ASSUME NEW k \in 1 .. Len(funs')
                 PROVE  /\ funs'[k].scope \in 0 .. (Len(ref) - 1)
                        /\ funs'[k].level <=> funs'[k].scope = Module
      OBVIOUS
    <3>1. CASE k = K + 1
      BY <1>10, <2>4, <3>1
    <3>2. CASE k # K + 1
      <4>1. k \in 1 .. K /\ funs'[k] = funs[k]
        BY <1>3, <1>10, <3>2
      <4> QED
        BY <2>3, <4>1
    <3> QED
      BY <3>1, <3>2
  <2> QED
    BY <1>2, <1>5, <2>1, <2>2, <2>5 DEF Chained
<1>15. Restores(V, variables', funs', frames')
  <2>1. \A i \in 2 .. L : frames[i].fn \in 1 .. K
    BY <1>2 DEF Chained
  <2> QED
    BY <1>2, <1>5, <1>10, <2>1 DEF Restores
<1> HIDE DEF L, K
<1>16. \A n \in Names : ow[n] # owner[n] => n \in Captured(role) /\ owner[n] = 0 /\ variables[n] # NoVal
  BY <1>6 DEF Captured
<1>17. CellsHold(V, owners', cells')
  <2>1. \A i \in 1 .. L, n \in Names : owners[i][n] # 0 =>
           owners[i][n] \in 1 .. Len(cells) /\ V[i][n] # NoVal /\ cells[owners[i][n]][n] = V[i][n]
    BY <1>2, <1>3 DEF CellsHold
  <2>2. \A i, j \in 1 .. L : \A m, n \in Names :
           i # j /\ owners[i][m] # 0 => owners[i][m] # owners[j][n]
    BY <1>2, <1>3 DEF CellsHold
  <2>3. ASSUME NEW i \in 1 .. L, NEW n \in Names, owners'[i][n] # 0
        PROVE  /\ owners'[i][n] \in 1 .. Len(cs) /\ V[i][n] # NoVal
               /\ cs[owners'[i][n]][n] = V[i][n]
    <3>1. CASE owners'[i][n] = owners[i][n]
      <4>1. owners[i][n] \in 1 .. Len(cells) /\ V[i][n] # NoVal /\ cells[owners[i][n]][n] = V[i][n]
        BY <2>1, <2>3, <3>1
      <4>2. Len(cs) \in Nat
        BY <1>6
      <4> QED
        BY <1>3, <1>6, <3>1, <4>1, <4>2
    <3>2. CASE owners'[i][n] # owners[i][n]
      <4>1. i = L /\ owners'[i][n] = ow[n] /\ ow[n] # owner[n]
        BY <1>3, <1>11, <3>2
      <4>2. n \in Captured(role) /\ variables[n] # NoVal
        BY <1>16, <4>1
      <4> QED
        BY <1>3, <1>6, <4>1, <4>2
    <3> QED
      BY <3>1, <3>2
  <2>4. ASSUME NEW i \in 1 .. L, NEW j \in 1 .. L, NEW m \in Names, NEW n \in Names,
               i # j, owners'[i][m] # 0
        PROVE  owners'[i][m] # owners'[j][n]
    <3>1. \A q \in Names : ow[q] = owner[q] \/ ow[q] > Len(cells)
      BY <1>3, <1>6, <1>16
    <3>2. \A k \in 1 .. L, q \in Names : owners[k][q] \in Nat /\ owners[k][q] <= Len(cells)
      <4> SUFFICES ASSUME NEW k \in 1 .. L, NEW q \in Names
                   PROVE  owners[k][q] \in Nat /\ owners[k][q] <= Len(cells)
        OBVIOUS
      <4>1. owners[k] \in [Names -> Nat]
        BY <1>3, SMTT(30)
      <4> QED
        BY <1>3, <2>1, <4>1
    <3>3. CASE i # L /\ j # L
      <4>1. owners'[i] = owners[i] /\ owners'[j] = owners[j]
        BY <1>11, <3>3
      <4> QED
        BY <2>2, <2>4, <4>1
    <3>4. CASE i = L
      <4>1. owners'[j] = owners[j] /\ owners'[i] = ow /\ owners[i] = owner
        BY <1>3, <1>11, <2>4, <3>4
      <4>2. CASE ow[m] = owner[m]
        BY <2>2, <2>4, <4>1, <4>2
      <4>3. CASE ow[m] > Len(cells)
        BY <1>3, <3>2, <4>1, <4>3
      <4> QED
        BY <3>1, <4>2, <4>3
    <3>5. CASE j = L
      <4>1. owners'[i] = owners[i] /\ owners'[j] = ow /\ owners[j] = owner
        BY <1>3, <1>11, <2>4, <3>5
      <4>2. CASE ow[n] = owner[n]
        BY <2>2, <2>4, <4>1, <4>2
      <4>3. CASE ow[n] > Len(cells)
        BY <1>3, <3>2, <4>1, <4>3
      <4> QED
        BY <3>1, <4>2, <4>3
    <3> QED
      BY <3>3, <3>4, <3>5
  <2>5. \A i \in 1 .. Len(owners'), n \in Names : owners'[i][n] # 0 =>
           owners'[i][n] \in 1 .. Len(cells') /\ V[i][n] # NoVal /\ cells'[owners'[i][n]][n] = V[i][n]
    BY <1>5, <1>11, <2>3
  <2>6. \A i, j \in 1 .. Len(owners') : \A m, n \in Names :
           i # j /\ owners'[i][m] # 0 => owners'[i][m] # owners'[j][n]
    BY <1>11, <2>4
  <2> QED
    BY <2>5, <2>6 DEF CellsHold
<1>18. Refreshed(V, owners', funs', frames')
  <2> SUFFICES ASSUME NEW k \in 1 .. (K + 1), NEW i \in 1 .. L, NEW n \in Names,
                      funs'[k].scope = frames[i].act
               PROVE  /\ funs'[k].refresh[n] # 0 => funs'[k].refresh[n] = owners'[i][n]
                      /\ funs'[k].role[n] = "read" /\ funs'[k].closure[n] # NoVal =>
                            funs'[k].refresh[n] # 0
                      /\ funs'[k].level /\ funs'[k].closure[n] # NoVal => V[i][n] # NoVal
    BY <1>5, <1>10 DEF Refreshed, L
  <2>1. CASE k # K + 1
    <3>1. k \in 1 .. K /\ funs'[k] = funs[k]
      BY <1>3, <1>10, <2>1
    <3>2. /\ funs[k].refresh[n] # 0 => funs[k].refresh[n] = owners[i][n]
          /\ funs[k].role[n] = "read" /\ funs[k].closure[n] # NoVal => funs[k].refresh[n] # 0
          /\ funs[k].level /\ funs[k].closure[n] # NoVal => V[i][n] # NoVal
      BY <1>2, <3>1 DEF Refreshed, L, K
    <3>3. owners[i][n] # 0 => owners'[i][n] = owners[i][n]
      BY <1>3, <1>11, <1>16
    <3> QED
      BY <3>1, <3>2, <3>3
  <2>2. CASE k = K + 1
    <3>1. funs'[k] = f /\ i = L
      BY <1>9, <1>10, <1>13, <2>2
    <3>2. role[n] = "read" /\ variables[n] # NoVal => ow[n] # 0
      <4>1. CASE owner[n] = 0 /\ role[n] = "read" /\ variables[n] # NoVal
        <5>1. n \in Captured(role)
          BY <4>1 DEF Captured
        <5>2. ow[n] \in (Len(cells) + 1) .. Len(cs) /\ Len(cs) \in Nat
          BY <1>6, <5>1
        <5> QED
          BY <1>3, <5>2
      <4>2. CASE owner[n] # 0
        BY <1>16, <4>2
      <4> QED
        BY <4>1, <4>2
    <3> QED
      BY <1>3, <1>8, <1>9, <1>11, <3>1, <3>2
  <2> QED
    BY <2>1, <2>2
<1>19. ReadsRight(V, funs', frames', ref')
  <2>1. Older(ref, funs) /\ Older(ref, funs')
    BY <1>2, <1>5, <1>12, <1>14, ChainedOlder
  <2>2. \A a \in 1 .. (Len(ref) - 1) : funs'[ref[a + 1].fn] = funs[ref[a + 1].fn]
    BY <1>2, <1>10 DEF Chained, K
  <2>3. ASSUME NEW m \in Names
        PROVE  \A a \in 0 .. (Len(ref) - 1) : HomeIn(ref, funs', a, m) = HomeIn(ref, funs, a, m)
    <3>1. \A a \in 1 .. (Len(ref) - 1) : /\ ref[a + 1].fn = ref[a + 1].fn
                                         /\ funs'[ref[a + 1].fn] = funs[ref[a + 1].fn]
      BY <2>2
    <3>2. Len(ref) \in Nat /\ Len(ref) <= Len(ref)
      BY <1>3
    <3> QED
      BY <2>1, <3>1, <3>2, HomeStays
  <2>4. ASSUME NEW i \in 1 .. L, NEW m \in Names
        PROVE  /\ RoleOf(funs', frames[i].fn, m) = RoleOf(funs, frames[i].fn, m)
               /\ LexicalIn(funs', ref, frames[i].act, m) = LexicalIn(funs, ref, frames[i].act, m)
    BY <1>10, <1>13, <2>3 DEF RoleOf, LexicalIn
  <2>5. ASSUME NEW k \in 1 .. (K + 1), NEW m \in Names, funs'[k].role[m] = "read",
               funs'[k].scope # Module
        PROVE  funs'[ref[funs'[k].scope + 1].fn].role[m] # "unused"
    <3>1. CASE k # K + 1
      <4>1. k \in 1 .. K /\ funs'[k] = funs[k]
        BY <1>3, <1>10, <3>1
      <4>2. funs[k].scope \in 1 .. (Len(ref) - 1)
        BY <1>2, <1>3, <2>5, <4>1 DEF Chained, Module, K
      <4>3. funs[ref[funs[k].scope + 1].fn].role[m] # "unused"
        BY <1>2, <2>5, <4>1 DEF ReadsRight, K
      <4> QED
        BY <2>2, <4>1, <4>2, <4>3
    <3>2. CASE k = K + 1
      <4>1. funs'[k] = f /\ role[m] = "read" /\ top.act # Module
        BY <1>9, <1>10, <2>5, <3>2
      <4>2. top.fn # Module /\ ref[top.act + 1].fn = top.fn /\ top.fn \in 1 .. K
        BY <1>3, <1>7, <1>13, <4>1
      <4>3. RoleIn(top, m) # "unused"
        BY <1>7, <4>1, <4>2 DEF WellFormed
      <4> QED
        BY <1>9, <1>10, <4>1, <4>2, <4>3 DEF RoleIn
    <3> QED
      BY <3>1, <3>2
  <2> QED
    BY <1>2, <1>5, <1>10, <2>4, <2>5, ZenonT(30) DEF ReadsRight, L
<1>20. program' = program /\ program \in Programs
  BY <1>4 DEF Define, ScopeInv
<1>21. SteadyIn(program', V, owners', funs', frames')
  <2> SUFFICES ASSUME program.calls # "own" PROVE Steady(V, owners', funs', frames)
    BY <1>5, <1>20 DEF SteadyIn
  <2>1. Steady(V, owners, funs, frames)
    BY <1>1 DEF SteadyIn
  <2>2. \A n \in Names : role[n] \in IF n \in ModuleNames THEN {"read", "unused"}
                                                         ELSE {"param", "local", "unused"}
    BY DEF OnlyReads, NamesApart
  <2>3. ASSUME NEW i \in 1 .. L, NEW n \in Names, n \notin ModuleNames
        PROVE  owners'[i][n] = 0
    <3>1. owners[i][n] = 0
      BY <2>1, <2>3 DEF Steady, L
    <3>2. n \notin Captured(role)
      BY <2>2, <2>3 DEF Captured
    <3> QED
      BY <1>3, <1>6, <1>11, <3>1, <3>2
  <2>4. ASSUME NEW k \in 1 .. (K + 1), NEW n \in Names
        PROVE  funs'[k].role[n] \in IF n \in ModuleNames THEN {"read", "unused"}
                                                         ELSE {"param", "local", "unused"}
    <3>1. CASE k = K + 1
      BY <1>9, <1>10, <2>2, <3>1
    <3>2. CASE k # K + 1
      <4>1. k \in 1 .. K /\ funs'[k] = funs[k]
        BY <1>3, <1>10, <3>2
      <4> QED
        BY <2>1, <4>1 DEF Steady, K
    <3> QED
      BY <3>1, <3>2
  <2>5. ASSUME NEW k \in 1 .. (K + 1), NEW i \in 2 .. L, NEW n \in ModuleNames \cap Names,
               funs'[k].scope = frames[i].act
        PROVE  funs'[k].closure[n] = V[1][n]
    <3>1. CASE k = K + 1
      <4>1. i = L
        BY <1>3, <1>9, <1>10, <1>13, <2>5, <3>1
      <4>2. V[L][n] = V[1][n]
        BY <1>3, <2>1 DEF Steady, L
      <4> QED
        BY <1>3, <1>9, <1>10, <3>1, <4>2
    <3>2. CASE k # K + 1
      <4>1. k \in 1 .. K /\ funs'[k] = funs[k]
        BY <1>3, <1>10, <3>2
      <4> QED
        BY <2>1, <2>5, <4>1 DEF Steady, K, L
    <3> QED
      BY <3>1, <3>2
  <2>6. \A i \in 1 .. Len(frames), n \in Names : /\ n \in ModuleNames => V[i][n] = V[1][n]
                                                 /\ n \notin ModuleNames => V[1][n] = NoVal
    BY <2>1 DEF Steady
  <2> QED
    BY <1>10, <2>3, <2>4, <2>5, <2>6 DEF Steady, L
<1> QED
  BY <1>12, <1>14, <1>15, <1>17, <1>18, <1>19, <1>20, <1>21 DEF ScopeInv, Holds

(* The names a call of function k keeps although it may save them. *)
Keeps(V, k, n) ==
    funs[k].role[n] = "read" \/ (Steady(V, owners, funs, frames) /\ n \in ModuleNames)

(* What a call sets a name to, its function's scope being frame j.  A name  *)
(* the frame does not save keeps its value, and so does every name the     *)
(* body reads.                                                             *)
LEMMA Overlaid ==
    ASSUME NEW V, Holds(V, variables, owners, cells, funs, frames, ref),
           NEW k \in 1 .. Len(funs), NEW j \in 1 .. Len(frames), funs[k].scope = frames[j].act,
           j = Len(frames) \/ Steady(V, owners, funs, frames), NEW arg \in Vals, NEW n \in Names
    PROVE  /\ Overlay(funs[k], arg, n) \in Value
           /\ funs[k].role[n] = "param" => Overlay(funs[k], arg, n) = arg
           /\ Keeps(V, k, n) \/ n \notin touched(funs[k]) =>
                 Overlay(funs[k], arg, n) \in {NoVal, variables[n]}
<1> DEFINE f == funs[k]
           L == Len(frames)
<1>1. /\ Types(V, variables, owners, cells, funs, frames, ref) /\ Chained(funs, frames, ref)
      /\ Restores(V, variables, funs, frames) /\ CellsHold(V, owners, cells)
      /\ Refreshed(V, owners, funs, frames)
  BY DEF Holds
<1>2. L \in 1 .. L /\ L \in Nat /\ Len(owners) = L /\ V[L] = variables /\ variables[n] \in Value
  BY <1>1 DEF Types, Chained, Restores, Env
<1>3. /\ f.role[n] \in ReadRoles /\ f.closure[n] \in Value /\ f.refresh[n] \in Nat /\ f.ncell = 0
      /\ f.level \in BOOLEAN
  BY <1>1, EntryTypes, FunctionTypes
<1>4. /\ f.refresh[n] # 0 => f.refresh[n] = owners[j][n]
      /\ f.role[n] = "read" /\ f.closure[n] # NoVal => f.refresh[n] # 0
      /\ f.level /\ f.closure[n] # NoVal => V[j][n] # NoVal
  BY <1>1, <1>2 DEF Refreshed
<1>5. f.refresh[n] # 0 => n \in ModuleNames \/ j = L
  BY <1>2, <1>4 DEF Steady
<1>6. /\ n \in ModuleNames => V[j][n] = variables[n]
      /\ n \in ModuleNames /\ Steady(V, owners, funs, frames) => V[1][n] = variables[n]
  BY <1>2 DEF Steady
<1>7. f.refresh[n] # 0 => cells[f.refresh[n]][n] = variables[n] /\ variables[n] # NoVal
  <2> SUFFICES ASSUME f.refresh[n] # 0
               PROVE  cells[f.refresh[n]][n] = variables[n] /\ variables[n] # NoVal
    OBVIOUS
  <2>1. f.refresh[n] = owners[j][n] /\ owners[j][n] # 0
    BY <1>4
  <2>2. V[j][n] # NoVal /\ cells[owners[j][n]][n] = V[j][n]
    BY <1>1, <1>2, <2>1 DEF CellsHold
  <2>3. V[j][n] = variables[n]
    BY <1>2, <1>5, <1>6
  <2> HIDE DEF f
  <2> QED
    BY <2>1, <2>2, <2>3
<1>8. f.level <=> j = 1
  <2>1. f.level <=> frames[j].act = 0
    BY <1>1 DEF Chained, Module
  <2>2. frames[1].act = 0 /\ (j # 1 => frames[1].act < frames[j].act)
    BY <1>1, <1>2 DEF Chained, Module
  <2> QED
    BY <2>1, <2>2
<1>9. f.level /\ f.closure[n] # NoVal => variables[n] # NoVal
  <2> SUFFICES ASSUME f.level, f.closure[n] # NoVal PROVE variables[n] # NoVal
    OBVIOUS
  <2>1. V[j][n] # NoVal /\ j = 1
    BY <1>4, <1>8
  <2>2. CASE n \in ModuleNames
    BY <1>6, <2>1, <2>2
  <2>3. CASE n \notin ModuleNames
    <3>1. ~ Steady(V, owners, funs, frames)
      BY <1>2, <2>1, <2>3 DEF Steady
    <3> QED
      BY <1>2, <2>1, <3>1
  <2> QED
    BY <2>2, <2>3
<1>10. Steady(V, owners, funs, frames) /\ n \in ModuleNames =>
          /\ f.role[n] \in {"read", "unused"}
          /\ f.level \/ f.closure[n] = variables[n]
  <2> SUFFICES ASSUME Steady(V, owners, funs, frames), n \in ModuleNames
               PROVE  f.role[n] \in {"read", "unused"} /\ (f.level \/ f.closure[n] = variables[n])
    OBVIOUS
  <2>1. f.role[n] \in {"read", "unused"}
    BY DEF Steady
  <2>2. j # 1 => j \in 2 .. L
    BY <1>2
  <2>3. j # 1 => f.closure[n] = V[1][n]
    BY <2>2 DEF Steady
  <2>4. V[1][n] = variables[n]
    BY <1>6
  <2> HIDE DEF f
  <2> QED
    BY <1>8, <2>1, <2>3, <2>4
<1> HIDE DEF f, L
<1>11. Overlay(f, arg, n) = IF f.role[n] = "param" THEN arg
                            ELSE IF f.refresh[n] # 0 THEN variables[n]
                            ELSE IF f.level /\ variables[n] # NoVal THEN NoVal ELSE f.closure[n]
  BY <1>3, <1>7 DEF Overlay, ReadRoles
<1>12. Overlay(f, arg, n) \in Value
  BY <1>2, <1>3, <1>11 DEF Value
<1>13. f.role[n] = "read" => Overlay(f, arg, n) \in {NoVal, variables[n]}
  BY <1>4, <1>11
<1>14. f.role[n] \in {"read", "unused"} /\ (f.level \/ f.closure[n] \in {NoVal, variables[n]}) =>
           Overlay(f, arg, n) \in {NoVal, variables[n]}
  BY <1>2, <1>9, <1>11
<1>15. n \notin touched(f) =>
           f.role[n] \in {"read", "unused"} /\ (f.level \/ f.closure[n] \in {NoVal, variables[n]})
  BY <1>3 DEF touched, ReadRoles
<1> QED
  BY <1>10, <1>11, <1>12, <1>13, <1>14, <1>15 DEF f, Keeps

(* Entering a call: what it saves, and what the map has then. *)
LEMMA CallStep ==
    ASSUME OnlyReads(program), NEW V, Holds(V, variables, owners, cells, funs, frames, ref),
           SteadyIn(program, V, owners, funs, frames),
           NEW k \in 1 .. Len(funs), NEW arg \in Vals, Call(k, arg)
    PROVE  \E s \in Saves, e \in Env, j \in 1 .. Len(frames) :
              /\ funs[k].scope = frames[j].act
              /\ j = Len(frames) \/ Steady(V, owners, funs, frames)
              /\ cells' = cells /\ funs' = funs /\ program' = program
              /\ owners' = Append(owners, NoCells)
              /\ frames' = Append(frames, [fn |-> k, act |-> Len(ref), saved |-> s])
              /\ ref' = Append(ref, [fn |-> k, env |-> e])
              /\ variables' \in Env
              /\ \A n \in Names :
                    /\ variables[n] = IF n \in DOMAIN s THEN s[n] ELSE variables'[n]
                    /\ funs[k].role[n] \in {"param", "local"} => n \in DOMAIN s
                    /\ e[n] = IF funs[k].role[n] = "param" THEN arg ELSE NoVal
                    /\ funs[k].role[n] = "param" => variables'[n] = arg
                    /\ Keeps(V, k, n) => variables'[n] = variables[n]
<1> DEFINE f == funs[k]
           dom == IF Trivial(f) THEN {} ELSE touched(f)
           s == [n \in dom |-> variables[n]]
           e == [n \in Names |-> IF f.role[n] = "param" THEN arg ELSE NoVal]
           set == [n \in Names |-> Overlay(f, arg, n)]
<1>1. f \in FunctionObjects /\ variables \in Env
  <2>1. Types(V, variables, owners, cells, funs, frames, ref)
    BY DEF Holds
  <2> QED
    BY <2>1, EntryTypes DEF Types
<1>2. f.kind = "def" /\ \A n \in Names : f.role[n] \in ReadRoles /\ variables[n] \in Value
  BY <1>1, FunctionTypes DEF Env
<1>3. dom \subseteq Names /\ s \in Saves /\ e \in Env
  <2>1. dom \subseteq Names
    BY DEF touched
  <2> HIDE DEF dom
  <2>2. s \in [dom -> Value]
    BY <1>2, <2>1
  <2>3. e \in Env
    BY DEF Env, Value
  <2> QED
    BY <2>1, <2>2, <2>3 DEF Saves
<1>4. /\ f.scope \in CallScopes /\ cells' = cells /\ funs' = funs /\ program' = program
      /\ owners' = Append(owners, NoCells)
      /\ frames' = Append(frames, [fn |-> k, act |-> Len(ref), saved |-> s])
      /\ ref' = Append(ref, [fn |-> k, env |-> e])
      /\ variables' = IF Trivial(f) THEN variables
                      ELSE [n \in Names |-> IF set[n] = NoVal THEN variables[n] ELSE set[n]]
  BY <1>2 DEF Call
<1>8. PICK j \in 1 .. Len(frames) :
         f.scope = frames[j].act /\ (j = Len(frames) \/ Steady(V, owners, funs, frames))
  <2>1. Len(frames) \in 1 .. Len(frames) /\ DOMAIN frames = 1 .. Len(frames)
    BY DEF Holds, Types, Chained
  <2>2. CASE program.calls = "own"
    BY <1>4, <2>1, <2>2 DEF CallScopes, top
  <2>3. CASE program.calls = "running"
    BY <1>4, <2>1, <2>3 DEF CallScopes, SteadyIn
  <2> QED
    BY <2>2, <2>3 DEF OnlyReads
<1>5. \A n \in Names : /\ set[n] \in Value /\ (f.role[n] = "param" => set[n] = arg)
                       /\ Keeps(V, k, n) \/ n \notin touched(f) => set[n] \in {NoVal, variables[n]}
  <2> SUFFICES ASSUME NEW n \in Names
               PROVE  /\ Overlay(f, arg, n) \in Value
                      /\ f.role[n] = "param" => Overlay(f, arg, n) = arg
                      /\ Keeps(V, k, n) \/ n \notin touched(f) =>
                            Overlay(f, arg, n) \in {NoVal, variables[n]}
    OBVIOUS
  <2> QED
    BY <1>8, Overlaid
<1>6. variables' \in Env
  <2> HIDE DEF f, set
  <2> QED
    BY <1>1, <1>2, <1>4, <1>5 DEF Env
<1>7. ASSUME NEW n \in Names
      PROVE  /\ variables[n] = IF n \in DOMAIN s THEN s[n] ELSE variables'[n]
             /\ f.role[n] \in {"param", "local"} => n \in DOMAIN s
             /\ e[n] = IF f.role[n] = "param" THEN arg ELSE NoVal
             /\ f.role[n] = "param" => variables'[n] = arg
             /\ Keeps(V, k, n) => variables'[n] = variables[n]
  <2>1. DOMAIN s = dom /\ e[n] = IF f.role[n] = "param" THEN arg ELSE NoVal
    OBVIOUS
  <2>2. CASE Trivial(f)
    <3>1. f.role[n] \in {"read", "unused"} /\ variables' = variables /\ dom = {}
      BY <1>4, <2>2 DEF Trivial
    <3> HIDE DEF f
    <3> QED
      BY <2>1, <3>1
  <2>3. CASE ~ Trivial(f)
    <3>1. dom = touched(f) /\ variables'[n] = IF set[n] = NoVal THEN variables[n] ELSE set[n]
      BY <1>4, <2>3
    <3>2. f.role[n] \in {"param", "local"} => n \in touched(f)
      BY DEF touched
    <3>3. arg # NoVal
      BY ScopesAssumption
    <3>4. n \in dom => s[n] = variables[n]
      OBVIOUS
    <3> HIDE DEF f, dom, s, set, e
    <3> QED
      BY <1>5, <2>1, <3>1, <3>2, <3>3, <3>4
  <2> QED
    BY <2>2, <2>3
<1>9. \A n \in Names :
         /\ variables[n] = IF n \in DOMAIN s THEN s[n] ELSE variables'[n]
         /\ funs[k].role[n] \in {"param", "local"} => n \in DOMAIN s
         /\ e[n] = IF funs[k].role[n] = "param" THEN arg ELSE NoVal
         /\ funs[k].role[n] = "param" => variables'[n] = arg
         /\ Keeps(V, k, n) => variables'[n] = variables[n]
  BY <1>7
<1>10. funs[k].scope = frames[j].act
  BY <1>8
<1> HIDE DEF s, e, f
<1> QED
  BY <1>3, <1>4, <1>6, <1>8, <1>9, <1>10

(* A call shows the body what its function's scope has. *)
LEMMA ScopeCall ==
    ASSUME OnlyReads(program), ScopeInv, NEW k \in 1 .. Len(funs), NEW arg \in Vals, Call(k, arg)
    PROVE  ScopeInv'
<1>1. PICK V : /\ Holds(V, variables, owners, cells, funs, frames, ref)
               /\ SteadyIn(program, V, owners, funs, frames)
  BY DEF ScopeInv
<1>2. /\ Types(V, variables, owners, cells, funs, frames, ref) /\ Chained(funs, frames, ref)
      /\ Restores(V, variables, funs, frames) /\ CellsHold(V, owners, cells)
      /\ Refreshed(V, owners, funs, frames) /\ ReadsRight(V, funs, frames, ref)
  BY <1>1 DEF Holds
<1> DEFINE L == Len(frames)
           A == Len(ref)
           f == funs[k]
<1>3. PICK s \in Saves, e \in Env, g \in 1 .. L :
              /\ f.scope = frames[g].act
              /\ g = L \/ Steady(V, owners, funs, frames)
              /\ cells' = cells /\ funs' = funs /\ program' = program
              /\ owners' = Append(owners, NoCells)
              /\ frames' = Append(frames, [fn |-> k, act |-> A, saved |-> s])
              /\ ref' = Append(ref, [fn |-> k, env |-> e])
              /\ variables' \in Env
              /\ \A n \in Names :
                    /\ variables[n] = IF n \in DOMAIN s THEN s[n] ELSE variables'[n]
                    /\ f.role[n] \in {"param", "local"} => n \in DOMAIN s
                    /\ e[n] = IF f.role[n] = "param" THEN arg ELSE NoVal
                    /\ f.role[n] = "param" => variables'[n] = arg
                    /\ Keeps(V, k, n) => variables'[n] = variables[n]
  BY <1>1, CallStep
<1>4. /\ L \in Nat /\ L >= 1 /\ Len(owners) = L /\ V[L] = variables /\ top = frames[L]
      /\ A \in Nat /\ A >= 1 /\ k \in Nat /\ funs \in Seq(FunctionObjects) /\ Len(funs) \in Nat
      /\ f \in FunctionObjects
  <2>1. /\ Len(owners) = L /\ L \in Nat /\ A \in Nat /\ funs \in Seq(FunctionObjects)
        /\ Len(funs) \in Nat
    BY <1>2 DEF Types
  <2>2. L >= 1 /\ A >= 1
    BY <1>2 DEF Chained
  <2>3. V[L] = variables
    BY <1>2 DEF Restores
  <2>4. f \in FunctionObjects
    BY <1>2, EntryTypes
  <2> QED
    BY <2>1, <2>2, <2>3, <2>4 DEF top
<1> DEFINE fr == [fn |-> k, act |-> A, saved |-> s]
           rf == [fn |-> k, env |-> e]
<1>5. /\ fr \in Frames /\ fr.fn = k /\ fr.act = A /\ fr.saved = s
      /\ rf \in Activations /\ rf.fn = k /\ rf.env = e
  BY <1>4 DEF Frames, Activations
<1> HIDE DEF fr, rf
<1>6. /\ frames' \in Seq(Frames) /\ Len(frames') = L + 1 /\ frames'[L + 1] = fr
      /\ \A i \in 1 .. L : frames'[i] = frames[i]
  BY <1>2, <1>3, <1>5 DEF Types, fr
<1>7. /\ ref' \in Seq(Activations) /\ Len(ref') = A + 1 /\ ref'[A + 1] = rf
      /\ \A a \in 1 .. A : ref'[a] = ref[a]
  BY <1>2, <1>3, <1>5 DEF Types, rf
<1>8. /\ owners' \in Seq([Names -> Nat]) /\ Len(owners') = L + 1
      /\ \A n \in Names : owners'[L + 1][n] = 0
      /\ \A i \in 1 .. L : owners'[i] = owners[i]
  <2>1. NoCells \in [Names -> Nat] /\ \A n \in Names : NoCells[n] = 0
    BY DEF NoCells
  <2>2. owners \in Seq([Names -> Nat]) /\ owners' = Append(owners, NoCells)
    BY <1>2, <1>3 DEF Types
  <2>3. Len(owners) = L /\ L \in Nat
    BY <1>4
  <2>4. /\ Append(owners, NoCells) \in Seq([Names -> Nat])
        /\ Len(Append(owners, NoCells)) = Len(owners) + 1
        /\ \A i \in 1 .. Len(owners) : Append(owners, NoCells)[i] = owners[i]
        /\ Append(owners, NoCells)[Len(owners) + 1] = NoCells
    BY <2>1, <2>2, AppendProperties
  <2> QED
    BY <2>1, <2>2, <2>3, <2>4
<1> DEFINE W == [i \in 1 .. (L + 1) |-> IF i <= L THEN V[i] ELSE variables']
<1>9. /\ W \in [1 .. (L + 1) -> Env] /\ W[L + 1] = variables'
      /\ \A i \in 1 .. L : W[i] = V[i]
  <2>1. V \in [1 .. L -> Env]
    BY <1>2 DEF Types
  <2> HIDE DEF L
  <2>2. \A i \in 1 .. L : V[i] \in Env
    BY <2>1
  <2> QED
    BY <1>3, <1>4, <2>2
<1> HIDE DEF W
<1>10. Types(W, variables', owners', cells', funs', frames', ref')
  BY <1>2, <1>3, <1>6, <1>7, <1>8, <1>9 DEF Types
<1>11. /\ \A i \in 1 .. L : /\ frames[i].act \in 0 .. (A - 1)
                            /\ frames[i].fn = Module <=> i = 1
                            /\ frames[i].act = Module <=> i = 1
                            /\ i # 1 => /\ ref[frames[i].act + 1].fn = frames[i].fn
                                        /\ frames[i].fn \in 1 .. Len(funs)
       /\ \A i, j \in 1 .. L : i < j => frames[i].act < frames[j].act
       /\ \A a \in 1 .. (A - 1) : ref[a + 1].fn \in 1 .. Len(funs) /\ funs[ref[a + 1].fn].scope < a
       /\ \A q \in 1 .. Len(funs) : /\ funs[q].scope \in 0 .. (A - 1)
                                    /\ funs[q].level <=> funs[q].scope = Module
       /\ frames[1].fn = Module /\ frames[1].act = Module
  <2>1. /\ frames[1].fn = Module /\ frames[1].act = Module
        /\ \A i \in 2 .. L :
             /\ frames[i].fn \in 1 .. Len(funs)
             /\ frames[i].act \in 1 .. (A - 1) /\ ref[frames[i].act + 1].fn = frames[i].fn
    BY <1>2 DEF Chained
  <2>2. ASSUME NEW i \in 1 .. L
        PROVE  /\ frames[i].act \in 0 .. (A - 1)
               /\ frames[i].fn = Module <=> i = 1
               /\ frames[i].act = Module <=> i = 1
               /\ i # 1 => /\ ref[frames[i].act + 1].fn = frames[i].fn
                           /\ frames[i].fn \in 1 .. Len(funs)
    <3> HIDE DEF L, A
    <3>1. CASE i = 1
      BY <1>4, <2>1, <3>1 DEF Module
    <3>2. CASE i # 1
      <4>1. i \in 2 .. L
        BY <1>4, <3>2
      <4> QED
        BY <1>4, <2>1, <3>2, <4>1 DEF Module
    <3> QED
      BY <3>1, <3>2
  <2> QED
    BY <1>2, <2>1, <2>2 DEF Chained
<1> HIDE DEF L, A
<1>12. Chained(funs', frames', ref')
  <2>1. ASSUME NEW i \in 2 .. (L + 1)
        PROVE  /\ frames'[i].fn \in 1 .. Len(funs)
               /\ frames'[i].act \in 1 .. A /\ ref'[frames'[i].act + 1].fn = frames'[i].fn
    <3>2. CASE i = L + 1
      BY <1>4, <1>5, <1>6, <1>7, <3>2
    <3>3. CASE i # L + 1
      <4>1. i \in 1 .. L /\ i # 1 /\ frames'[i] = frames[i]
        BY <1>4, <1>6, <3>3
      <4>2. frames[i].act \in 1 .. (A - 1)
        BY <1>4, <1>11, <4>1 DEF Module
      <4>3. frames[i].act + 1 \in 1 .. A
        BY <1>4, <4>2
      <4>4. ref'[frames[i].act + 1] = ref[frames[i].act + 1]
        BY <1>7, <4>3
      <4>5. frames[i].fn \in 1 .. Len(funs) /\ ref[frames[i].act + 1].fn = frames[i].fn
        BY <1>11, <4>1
      <4>6. frames[i].act \in 1 .. A
        BY <1>4, <4>2
      <4> QED
        BY <4>1, <4>4, <4>5, <4>6
    <3> QED
      BY <3>2, <3>3
  <2>2. ASSUME NEW i \in 1 .. (L + 1), NEW j \in 1 .. (L + 1), i < j
        PROVE  frames'[i].act < frames'[j].act
    <3>1. i \in 1 .. L /\ frames'[i] = frames[i] /\ frames[i].act \in 0 .. (A - 1)
      BY <1>4, <1>6, <1>11, <2>2
    <3>2. CASE j = L + 1
      BY <1>4, <1>5, <1>6, <3>1, <3>2
    <3>3. CASE j # L + 1
      <4>1. j \in 1 .. L /\ frames'[j] = frames[j]
        BY <1>4, <1>6, <3>3
      <4> QED
        BY <1>11, <2>2, <3>1, <4>1
    <3> QED
      BY <3>2, <3>3
  <2>3. ASSUME NEW a \in 1 .. A
        PROVE  ref'[a + 1].fn \in 1 .. Len(funs) /\ funs[ref'[a + 1].fn].scope < a
    <3>1. CASE a = A
      <4>1. ref'[a + 1].fn = k /\ f.scope \in 0 .. (A - 1)
        BY <1>5, <1>7, <1>11, <3>1
      <4> QED
        BY <1>4, <3>1, <4>1
    <3>2. CASE a # A
      <4>1. a \in 1 .. (A - 1) /\ ref'[a + 1] = ref[a + 1]
        BY <1>4, <1>7, <3>2
      <4> QED
        BY <1>11, <4>1
    <3> QED
      BY <3>1, <3>2
  <2>4. \A q \in 1 .. Len(funs) : /\ funs[q].scope \in 0 .. A
                                  /\ funs[q].level <=> funs[q].scope = Module
    BY <1>4, <1>11
  <2>5. frames'[1].fn = Module /\ frames'[1].act = Module
    BY <1>4, <1>6, <1>11
  <2>6. Len(ref') - 1 = A /\ Len(frames') = L + 1 /\ Len(frames') >= 1 /\ Len(ref') >= 1 /\ funs' = funs
    BY <1>3, <1>4, <1>6, <1>7
  <2> QED
    BY <2>1, <2>2, <2>3, <2>4, <2>5, <2>6 DEF Chained
<1>13. Restores(W, variables', funs', frames')
  <2>1. ASSUME NEW i \in 2 .. (L + 1), NEW n \in Names
        PROVE  /\ W[i - 1][n] = IF n \in DOMAIN frames'[i].saved THEN frames'[i].saved[n] ELSE W[i][n]
               /\ funs[frames'[i].fn].role[n] \in {"param", "local"} => n \in DOMAIN frames'[i].saved
    <3>1. i - 1 \in 1 .. L /\ W[i - 1] = V[i - 1]
      BY <1>4, <1>9
    <3>2. CASE i = L + 1
      <4>1. V[i - 1] = variables /\ W[i] = variables' /\ frames'[i].saved = s /\ frames'[i].fn = k
        BY <1>4, <1>5, <1>6, <1>9, <3>2
      <4> QED
        BY <1>3, <3>1, <4>1
    <3>3. CASE i # L + 1
      <4>1. i \in 2 .. L /\ i \in 1 .. L
        BY <1>4, <3>3
      <4>2. W[i] = V[i] /\ frames'[i] = frames[i]
        BY <1>6, <1>9, <4>1
      <4> QED
        BY <1>2, <3>1, <4>1, <4>2 DEF Restores, L
    <3> QED
      BY <3>2, <3>3
  <2> QED
    BY <1>3, <1>6, <1>9, <2>1 DEF Restores
<1>14. CellsHold(W, owners', cells')
  <2>1. \A i \in 1 .. (L + 1), n \in Names : owners'[i][n] # 0 =>
            i \in 1 .. L /\ W[i] = V[i] /\ owners'[i] = owners[i]
    BY <1>4, <1>8, <1>9
  <2>2. \A i \in 1 .. L, n \in Names : owners[i][n] # 0 =>
           owners[i][n] \in 1 .. Len(cells) /\ V[i][n] # NoVal /\ cells[owners[i][n]][n] = V[i][n]
    BY <1>2, <1>4 DEF CellsHold
  <2>3. \A i, j \in 1 .. L : \A m, n \in Names :
           i # j /\ owners[i][m] # 0 => owners[i][m] # owners[j][n]
    BY <1>2, <1>4 DEF CellsHold
  <2>4. ASSUME NEW i \in 1 .. (L + 1), NEW n \in Names, owners'[i][n] # 0
        PROVE  owners'[i][n] \in 1 .. Len(cells) /\ W[i][n] # NoVal /\ cells[owners'[i][n]][n] = W[i][n]
    <3>1. i \in 1 .. L /\ W[i] = V[i] /\ owners'[i] = owners[i]
      BY <2>1, <2>4
    <3> QED
      BY <2>2, <2>4, <3>1
  <2>5. ASSUME NEW i \in 1 .. (L + 1), NEW j \in 1 .. (L + 1), NEW m \in Names, NEW n \in Names,
               i # j, owners'[i][m] # 0
        PROVE  owners'[i][m] # owners'[j][n]
    <3>1. i \in 1 .. L /\ owners'[i] = owners[i]
      BY <2>1, <2>5
    <3>2. CASE owners'[j][n] = 0
      BY <2>5, <3>2
    <3>3. CASE owners'[j][n] # 0
      <4>1. j \in 1 .. L /\ owners'[j] = owners[j]
        BY <2>1, <3>3
      <4> QED
        BY <2>3, <2>5, <3>1, <4>1
    <3> QED
      BY <3>2, <3>3
  <2>6. Len(owners') = L + 1 /\ cells' = cells
    BY <1>3, <1>8
  <2>7. \A i \in 1 .. Len(owners'), n \in Names : owners'[i][n] # 0 =>
           owners'[i][n] \in 1 .. Len(cells') /\ W[i][n] # NoVal /\ cells'[owners'[i][n]][n] = W[i][n]
    BY <2>4, <2>6
  <2>8. \A i, j \in 1 .. Len(owners') : \A m, n \in Names :
           i # j /\ owners'[i][m] # 0 => owners'[i][m] # owners'[j][n]
    BY <2>5, <2>6
  <2> QED
    BY <2>7, <2>8 DEF CellsHold
<1>15. Refreshed(W, owners', funs', frames')
  <2>1. ASSUME NEW q \in 1 .. Len(funs), NEW i \in 1 .. (L + 1), NEW n \in Names,
               funs[q].scope = frames'[i].act
        PROVE  /\ funs[q].refresh[n] # 0 => funs[q].refresh[n] = owners'[i][n]
               /\ funs[q].role[n] = "read" /\ funs[q].closure[n] # NoVal => funs[q].refresh[n] # 0
               /\ funs[q].level /\ funs[q].closure[n] # NoVal => W[i][n] # NoVal
    <3>1. i # L + 1
      <4>1. funs[q].scope \in 0 .. (A - 1)
        BY <1>11
      <4> QED
        BY <1>4, <1>5, <1>6, <2>1, <4>1
    <3>2. i \in 1 .. L
      BY <1>4, <3>1
    <3>3. frames'[i] = frames[i] /\ owners'[i] = owners[i] /\ W[i] = V[i]
      BY <1>6, <1>8, <1>9, <3>2
    <3>4. funs[q].scope = frames[i].act =>
              /\ funs[q].refresh[n] # 0 => funs[q].refresh[n] = owners[i][n]
              /\ funs[q].role[n] = "read" /\ funs[q].closure[n] # NoVal => funs[q].refresh[n] # 0
              /\ funs[q].level /\ funs[q].closure[n] # NoVal => V[i][n] # NoVal
      BY <1>2, <3>2 DEF Refreshed, L
    <3> QED
      BY <2>1, <3>3, <3>4
  <2>2. funs' = funs /\ Len(frames') = L + 1
    BY <1>3, <1>6
  <2> QED
    BY <2>1, <2>2 DEF Refreshed
<1>16. ReadsRight(W, funs', frames', ref')
  <2>1. Older(ref, funs) /\ Older(ref', funs)
    BY <1>2, <1>3, <1>10, <1>12, ChainedOlder
  <2>2. ASSUME NEW n \in Names, NEW a \in 0 .. (A - 1)
        PROVE  /\ HomeIn(ref', funs, a, n) = HomeIn(ref, funs, a, n)
               /\ LexicalIn(funs, ref', a, n) = LexicalIn(funs, ref, a, n)
    <3>1. \A b \in 1 .. (Len(ref) - 1) : /\ ref'[b + 1].fn = ref[b + 1].fn
                                         /\ funs[ref[b + 1].fn] = funs[ref[b + 1].fn]
      BY <1>4, <1>7 DEF A
    <3>2. Len(ref) \in Nat /\ Len(ref') \in Nat /\ Len(ref) <= Len(ref')
      BY <1>4, <1>7 DEF A
    <3>3. HomeIn(ref', funs, a, n) = HomeIn(ref, funs, a, n)
      BY <2>1, <3>1, <3>2, HomeStays DEF A
    <3>4. HomeIn(ref, funs, a, n) \in 0 .. a
      BY <2>1, <3>2, HomeOlder DEF A
    <3>5. HomeIn(ref, funs, a, n) + 1 \in 1 .. A
      BY <1>4, <3>4
    <3> QED
      BY <1>7, <3>3, <3>5 DEF LexicalIn
  <2>3. ASSUME NEW n \in Names
        PROVE  HomeIn(ref', funs, A, n) =
                 IF f.role[n] \in {"param", "local"} THEN A ELSE HomeIn(ref', funs, frames[g].act, n)
    <3>1. Len(ref') \in Nat /\ A \in 0 .. (Len(ref') - 1) /\ A # Module
      BY <1>4, <1>7 DEF Module
    <3>2. ref'[A + 1].fn = k /\ f.role[n] \in ReadRoles
      BY <1>4, <1>5, <1>7, FunctionTypes
    <3>3. HomeIn(ref', funs, A, n) =
             IF A = Module THEN Module
             ELSE IF funs[ref'[A + 1].fn].role[n] \in {"param", "local"} THEN A
             ELSE IF funs[ref'[A + 1].fn].role[n] = "global" THEN Module
             ELSE HomeIn(ref', funs, funs[ref'[A + 1].fn].scope, n)
      BY <2>1, <3>1, HomeStep
    <3>4. f.scope = frames[g].act
      BY <1>3
    <3> QED
      BY <3>1, <3>2, <3>3, <3>4 DEF ReadRoles
  <2>4. frames[g].act \in 0 .. (A - 1)
    BY <1>11
  <2>5. \A i \in 1 .. L, n \in Names :
           RoleOf(funs, frames[i].fn, n) # "unused" /\ LexicalIn(funs, ref, frames[i].act, n) # NoVal =>
              V[i][n] = LexicalIn(funs, ref, frames[i].act, n)
    BY <1>2 DEF ReadsRight, L
  <2>6. ASSUME NEW n \in Names, f.role[n] # "unused", LexicalIn(funs, ref', A, n) # NoVal
        PROVE  variables'[n] = LexicalIn(funs, ref', A, n)
    <3>1. f.role[n] \in ReadRoles
      BY <1>4, FunctionTypes
    <3>2. CASE f.role[n] \in {"param", "local"}
      <4>1. LexicalIn(funs, ref', A, n) = e[n]
        BY <1>5, <1>7, <2>3, <3>2 DEF LexicalIn
      <4> QED
        BY <1>3, <2>6, <3>2, <4>1
    <3>3. CASE f.role[n] = "read"
      <4>1. LexicalIn(funs, ref', A, n) = LexicalIn(funs, ref, frames[g].act, n)
        <5>1. LexicalIn(funs, ref', A, n) = LexicalIn(funs, ref', frames[g].act, n)
          BY <2>3, <3>3 DEF LexicalIn
        <5> QED
          BY <2>2, <2>4, <5>1
      <4>2. RoleOf(funs, frames[g].fn, n) # "unused"
        <5>1. CASE frames[g].act = Module
          <6>1. Len(ref) \in Nat /\ 0 \in 0 .. (Len(ref) - 1)
            BY <1>4 DEF A
          <6>2. HomeIn(ref, funs, Module, n) = 0
            BY <2>1, <6>1, HomeStep DEF Module
          <6>3. ref[1].env[n] # NoVal
            BY <2>6, <4>1, <5>1, <6>2 DEF LexicalIn
          <6>4. n \in ModuleNames
            BY <1>2, <6>3 DEF ReadsRight
          <6>5. frames[g].fn = Module
            BY <1>4, <1>11, <5>1
          <6> QED
            BY <6>4, <6>5 DEF RoleOf
        <5>2. CASE frames[g].act # Module
          <6>1. funs[ref[f.scope + 1].fn].role[n] # "unused"
            BY <1>2, <1>3, <3>3, <5>2 DEF ReadsRight
          <6>2. frames[g].fn # Module /\ ref[frames[g].act + 1].fn = frames[g].fn
            BY <1>4, <1>11, <5>2
          <6> QED
            BY <1>3, <6>1, <6>2 DEF RoleOf
        <5> QED
          BY <5>1, <5>2
      <4>3. V[g][n] = LexicalIn(funs, ref, frames[g].act, n)
        BY <2>5, <2>6, <4>1, <4>2
      <4>4. V[g][n] = variables[n]
        <5>1. CASE g = L
          BY <1>4, <5>1
        <5>2. CASE Steady(V, owners, funs, frames)
          <6>1. n \in ModuleNames
            BY <3>3, <5>2 DEF Steady
          <6> QED
            BY <1>4, <5>2, <6>1 DEF Steady, L
        <5> QED
          BY <1>3, <5>1, <5>2
      <4>5. variables'[n] = variables[n]
        BY <1>3, <3>3 DEF Keeps
      <4> QED
        BY <4>1, <4>3, <4>4, <4>5
    <3> QED
      BY <2>6, <3>1, <3>2, <3>3 DEF ReadRoles
  <2>7. ASSUME NEW i \in 1 .. (L + 1), NEW n \in Names, RoleOf(funs, frames'[i].fn, n) # "unused",
               LexicalIn(funs, ref', frames'[i].act, n) # NoVal
        PROVE  W[i][n] = LexicalIn(funs, ref', frames'[i].act, n)
    <3>1. CASE i = L + 1
      <4>1. frames'[i].act = A /\ frames'[i].fn = k /\ W[i] = variables' /\ k # Module
        BY <1>4, <1>5, <1>6, <1>9, <3>1 DEF Module
      <4> QED
        BY <2>6, <2>7, <4>1 DEF RoleOf
    <3>2. CASE i # L + 1
      <4>1. i \in 1 .. L /\ frames'[i] = frames[i] /\ W[i] = V[i] /\ frames[i].act \in 0 .. (A - 1)
        BY <1>4, <1>6, <1>9, <1>11, <3>2
      <4>2. LexicalIn(funs, ref', frames[i].act, n) = LexicalIn(funs, ref, frames[i].act, n)
        BY <2>2, <4>1
      <4> QED
        BY <2>5, <2>7, <4>1, <4>2
    <3> QED
      BY <3>1, <3>2
  <2>8. \A n \in Names : n \notin ModuleNames => ref'[1].env[n] = NoVal
    <3>1. ref'[1] = ref[1]
      BY <1>4, <1>7
    <3> QED
      BY <1>2, <3>1 DEF ReadsRight
  <2>9. ASSUME NEW q \in 1 .. Len(funs), NEW n \in Names, funs[q].role[n] = "read",
               funs[q].scope # Module
        PROVE  funs[ref'[funs[q].scope + 1].fn].role[n] # "unused"
    <3>1. funs[q].scope + 1 \in 1 .. A
      BY <1>4, <1>11
    <3>2. ref'[funs[q].scope + 1] = ref[funs[q].scope + 1]
      BY <1>7, <3>1
    <3> QED
      BY <1>2, <2>9, <3>2 DEF ReadsRight
  <2>10. funs' = funs /\ Len(frames') = L + 1
    BY <1>3, <1>6
  <2> QED
    BY <2>7, <2>8, <2>9, <2>10 DEF ReadsRight
<1>17. program' = program /\ program \in Programs
  BY <1>3 DEF ScopeInv
<1>18. SteadyIn(program', W, owners', funs', frames')
  <2> SUFFICES ASSUME program.calls # "own" PROVE Steady(W, owners', funs', frames')
    BY <1>17 DEF SteadyIn
  <2>1. Steady(V, owners, funs, frames)
    BY <1>1 DEF SteadyIn
  <2>2. W[1] = V[1] /\ 1 \in 1 .. L
    BY <1>4, <1>9
  <2>3. ASSUME NEW i \in 1 .. (L + 1), NEW n \in Names
        PROVE  /\ n \in ModuleNames => W[i][n] = W[1][n]
               /\ n \notin ModuleNames => owners'[i][n] = 0 /\ W[1][n] = NoVal
    <3>1. CASE i = L + 1
      <4>1. /\ n \in ModuleNames => variables'[n] = variables[n]
            /\ W[i] = variables' /\ owners'[i][n] = 0
        BY <1>3, <1>8, <1>9, <2>1, <3>1 DEF Keeps
      <4>2. n \in ModuleNames => V[L][n] = V[1][n]
        BY <1>4, <2>1 DEF Steady, L
      <4>3. n \notin ModuleNames => V[1][n] = NoVal
        BY <2>1, <2>2 DEF Steady, L
      <4> QED
        BY <1>4, <2>2, <4>1, <4>2, <4>3
    <3>2. CASE i # L + 1
      <4>1. i \in 1 .. L
        BY <1>4, <3>2
      <4>2. W[i] = V[i] /\ owners'[i] = owners[i]
        BY <1>8, <1>9, <4>1
      <4> QED
        BY <2>1, <2>2, <4>1, <4>2 DEF Steady, L
    <3> QED
      BY <3>1, <3>2
  <2>4. ASSUME NEW q \in 1 .. Len(funs), NEW i \in 2 .. (L + 1), NEW n \in ModuleNames \cap Names,
               funs[q].scope = frames'[i].act
        PROVE  funs[q].closure[n] = W[1][n]
    <3>1. funs[q].scope \in 0 .. (A - 1)
      BY <1>11
    <3>2. i # L + 1
      BY <1>4, <1>5, <1>6, <2>4, <3>1
    <3>3. i \in 2 .. L /\ i \in 1 .. L
      BY <1>4, <3>2
    <3> QED
      BY <1>6, <2>1, <2>2, <2>4, <3>3 DEF Steady, L
  <2>5. funs' = funs /\ Len(frames') = L + 1
    BY <1>3, <1>6
  <2> QED
    BY <2>1, <2>3, <2>4, <2>5 DEF Steady
<1> QED
  BY <1>10, <1>12, <1>13, <1>14, <1>15, <1>16, <1>17, <1>18 DEF ScopeInv, Holds

(* Every step keeps the invariant. *)
LEMMA ScopeNext ==
    ASSUME \A p \in Programs : OnlyReads(p)
    PROVE  ScopeInv /\ [Next]_vars => ScopeInv'
<1> SUFFICES ASSUME ScopeInv, [Next]_vars PROVE ScopeInv'
  OBVIOUS
<1>1. OnlyReads(program)
  BY DEF ScopeInv
<1>2. ASSUME NEW n \in Names, NEW v \in Vals, Assign(n, v) PROVE ScopeInv'
  BY <1>2, ScopeAssign
<1>3. ASSUME NEW role \in program.shapes, eval_function_def(role) PROVE ScopeInv'
  BY <1>1, <1>3, ScopeDef
<1>4. ASSUME NEW role \in program.shapes, eval_lambda_def(role) PROVE ScopeInv'
  BY <1>1, <1>4 DEF eval_lambda_def, OnlyReads
<1>5. ASSUME NEW k \in 1 .. Len(funs), NEW arg \in Vals, Call(k, arg) PROVE ScopeInv'
  BY <1>1, <1>5, ScopeCall
<1>6. CASE Leave
  BY <1>6, ScopeLeave
<1>7. CASE UNCHANGED vars
  BY <1>7 DEF ScopeInv, vars
<1> QED
  BY <1>2, <1>3, <1>4, <1>5, <1>6, <1>7 DEF Next

(* The flat map, its checkpoints and its cells give a running body the      *)
(* values Python's lexical rule gives it (call_user_function,               *)
(* apply_function_scope, VariableCheckpoint): for defs without `global' and  *)
(* `nonlocal', closures called by the activation that makes them, and       *)
(* functions of the module's names and their own called from anywhere,      *)
(* recursively too.  Beyond that there are programs for which it fails.     *)
THEOREM ReadsAreLexical ==
    ASSUME \A p \in Programs : OnlyReads(p)
    PROVE  Spec => []LexicalReads
<1>1. Init => ScopeInv
  BY ScopeInit
<1>2. ScopeInv /\ [Next]_vars => ScopeInv'
  BY ScopeNext
<1>3. ScopeInv => LexicalReads
  BY ScopeMeans
<1> QED
  BY <1>1, <1>2, <1>3, PTL DEF Spec

(* In those programs the cells of the running frame hold its variables, so  *)
(* that set_variable's write-through and ensure_capture_cells together      *)
(* leave no closure with an old value.                                     *)
THEOREM FrameCellsAreLive ==
    ASSUME \A p \in Programs : OnlyReads(p)
    PROVE  Spec => []CellsAreLive
<1>1. Init => ScopeInv
  BY ScopeInit
<1>2. ScopeInv /\ [Next]_vars => ScopeInv'
  BY ScopeNext
<1>3. ScopeInv => CellsAreLive
  BY ScopeMeans
<1> QED
  BY <1>1, <1>2, <1>3, PTL DEF Spec

=============================================================================
