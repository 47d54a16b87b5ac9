------------------------- MODULE InitProjectProofs -------------------------
(***************************************************************************)
(* What a run of init does to a project, for any ports, choices and number  *)
(* of edits, and any sequence of runs, failures and kills.                  *)
(***************************************************************************)
EXTENDS InitProject, TLAPS, SequenceTheorems, WellFoundedInduction

-----------------------------------------------------------------------------
(* Values and lines.                                                       *)

LEMMA ValueFacts ==
    /\ \A v \in {Placeholder, Flag, Users, Cloud} : v \in Value /\ v.kind # "local"
    /\ \A p \in Port : Local(p) \in Value /\ Local(p).kind = "local" /\ Local(p).port = p
    /\ \A v \in Value : v.port \in Port \cup {0}
    /\ Flag # Placeholder /\ Cloud # Placeholder /\ Cloud # Flag /\ Cloud # Users
    /\ None \notin Value
  BY NoneAssumption DEF Value, Placeholder, Flag, Users, Cloud, Local

LEMMA LinesFacts ==
    \A s : s \in Lines <=> s \in Seq(Value) /\ Len(s) <= 2
<1>1. ASSUME NEW n \in 0..2, NEW s \in [1..n -> Value]
      PROVE  s \in Seq(Value) /\ Len(s) <= 2
  <2>1. s \in Seq(Value)
    BY SeqDef
  <2>2. Len(s) = n
    BY <2>1, LenProperties
  <2>3. QED
    BY <2>1, <2>2
<1>2. ASSUME NEW s \in Seq(Value), Len(s) <= 2
      PROVE  \E n \in 0..2 : s \in [1..n -> Value]
  <2>1. Len(s) \in Nat /\ s \in [1..Len(s) -> Value]
    BY LenProperties
  <2>2. Len(s) \in 0..2
    BY <1>2, <2>1
  <2>3. QED
    BY <2>1, <2>2
<1>3. QED
  BY <1>1, <1>2 DEF Lines

\* The lines that are made of lines.
LEMMA LineSteps ==
    ASSUME NEW s \in Lines, NEW v \in Value
    PROVE  /\ <<>> \in Lines /\ <<v>> \in Lines
           /\ Len(<<v>>) = 1 /\ <<v>>[1] = v
           /\ s # <<>> => /\ Len(s) \in {1, 2} /\ Head(s) = s[1] /\ s[1] \in Value
                          /\ s[Len(s)] \in Value
                          /\ [s EXCEPT ![1] = v] \in Lines
                          /\ Len([s EXCEPT ![1] = v]) = Len(s)
                          /\ [s EXCEPT ![1] = v][1] = v
           /\ DOMAIN s = 1..Len(s) /\ Len(s) \in 0..2
           /\ Len(s) = 0 => s = <<>>
           /\ \A i \in DOMAIN s : s[i] \in Value
           /\ Len(s \o <<v>>) <= 2 => s \o <<v>> \in Lines
<1>1. s \in Seq(Value) /\ Len(s) <= 2 /\ Len(s) \in Nat /\ DOMAIN s = 1..Len(s)
  BY LinesFacts, LenProperties
<1>2. <<>> \in Seq(Value) /\ <<v>> \in Seq(Value) /\ Len(<<>>) = 0 /\ Len(<<v>>) = 1 /\ <<v>>[1] = v
  OBVIOUS
<1>3. ASSUME s # <<>>
      PROVE  /\ [s EXCEPT ![1] = v] \in Seq(Value)
             /\ Len([s EXCEPT ![1] = v]) = Len(s)
             /\ [s EXCEPT ![1] = v][1] = v
             /\ Len(s) \in {1, 2} /\ Head(s) = s[1] /\ s[1] \in Value /\ s[Len(s)] \in Value
  <2>1. Len(s) \in {1, 2}
    BY <1>1, <1>3, EmptySeq
  <2>2. 1 \in 1..Len(s) /\ Len(s) \in 1..Len(s)
    BY <2>1
  <2>3. /\ [s EXCEPT ![1] = v] \in Seq(Value) /\ Len([s EXCEPT ![1] = v]) = Len(s)
        /\ [s EXCEPT ![1] = v][1] = v
    BY <1>1, <2>2, ExceptSeq
  <2>4. QED
    BY <1>1, <2>1, <2>2, <2>3, ElementOfSeq
<1>4. s \o <<v>> \in Seq(Value)
  BY <1>1, <1>2, ConcatProperties
<1>5. \A i \in DOMAIN s : s[i] \in Value
  BY <1>1, ElementOfSeq
<1>6. Len(s) = 0 => s = <<>>
  BY <1>1, EmptySeq
<1>7. <<>> \in Lines /\ <<v>> \in Lines
  <2>1. Len(<<>>) <= 2 /\ Len(<<v>>) <= 2
    BY <1>2
  <2>2. QED
    BY <1>2, <2>1, LinesFacts, Zenon
<1>8. ASSUME s # <<>> PROVE [s EXCEPT ![1] = v] \in Lines
  <2>1. Len([s EXCEPT ![1] = v]) <= 2
    BY <1>1, <1>3, <1>8
  <2>2. QED
    BY <1>3, <1>8, <2>1, LinesFacts
<1>9. Len(s \o <<v>>) <= 2 => s \o <<v>> \in Lines
  BY <1>4, LinesFacts
<1>10. Len(s) \in 0..2
  BY <1>1
<1>11. QED
  BY <1>1, <1>2, <1>3, <1>5, <1>6, <1>7, <1>8, <1>9, <1>10

LEMMA KeyFacts ==
    /\ "REDIS_URL" \in Key /\ "ENDPOINT" \in Key /\ "API_KEY" \in Key
    /\ \A k \in Key : k # "REDIS_URL" => k = "ENDPOINT" \/ k = "API_KEY"
  BY DEF Key

\* What reading and loading a key give.
LEMMA ReadFacts ==
    ASSUME NEW e \in Env, NEW k \in Key
    PROVE  /\ First(e, k) \in Value \cup {None}
           /\ First(e, k) = None <=> e[k] = <<>>
           /\ First(e, k) # None => First(e, k) = e[k][1] /\ 1 \in DOMAIN e[k]
           /\ Loaded(e, k) \in Value \cup {None}
           /\ Loaded(e, k) = None <=> e[k] = <<>>
           /\ Len(e[k]) \in 0..2 /\ DOMAIN e[k] = 1..Len(e[k]) /\ e[k] \in Lines
           /\ Len(e[k]) <= 1 => Loaded(e, k) = First(e, k)
           /\ \A i \in DOMAIN e[k] : e[k][i] \in Value
<1>1. e[k] \in Lines
  BY DEF Env
<1>2. PICK s \in Lines : s = e[k]
  BY <1>1
<1>3. /\ DOMAIN s = 1..Len(s) /\ Len(s) \in 0..2 /\ \A i \in DOMAIN s : s[i] \in Value
      /\ s # <<>> => Len(s) \in {1, 2} /\ Head(s) = s[1] /\ s[1] \in Value /\ s[Len(s)] \in Value
  BY LineSteps, ValueFacts
<1>4. s # <<>> => /\ First(e, k) = s[1] /\ 1 \in DOMAIN s
                  /\ Loaded(e, k) = s[Len(s)] /\ s[1] # None /\ s[Len(s)] # None
  BY <1>2, <1>3, ValueFacts DEF First, Loaded
<1>5. s = <<>> => First(e, k) = None /\ Loaded(e, k) = None
  BY <1>2 DEF First, Loaded
<1>6. Len(s) <= 1 /\ s # <<>> => Len(s) = 1
  BY <1>3
<1>7. QED
  BY <1>2, <1>3, <1>4, <1>5, <1>6

\* The first free port is a port.
LEMMA FreePortFacts ==
    ASSUME \E p \in Port : Free(p)
    PROVE  FreePort \in Port
<1> DEFINE T == {p \in Port : Free(p)}
<1>1. T \subseteq Nat /\ T # {}
  BY InitAssumption
<1>2. \E x \in T : \A y \in T : <<y, x>> \notin OpToRel(<, Nat)
  BY <1>1, NatLessThanWellFounded, WFMin
<1>3. \E x \in T : \A y \in T : ~(y < x)
  BY <1>1, <1>2 DEF OpToRel
<1>4. \E p \in Port : Free(p) /\ \A q \in Port : Free(q) => p <= q
  BY <1>1, <1>3
<1>5. QED
  BY <1>4 DEF FreePort

-----------------------------------------------------------------------------
(* What the edits of .env do to the lines.                                 *)

LEMMA SetFacts ==
    ASSUME NEW e \in Env, NEW k \in Key, NEW v \in Value
    PROVE  /\ SetAbsent(e, k, v) \in Env
           /\ \A j \in Key : j # k => SetAbsent(e, k, v)[j] = e[j]
           /\ e[k] # <<>> => SetAbsent(e, k, v) = e
           /\ e[k] = <<>> => SetAbsent(e, k, v)[k] = <<v>>
  BY LineSteps DEF SetAbsent, Env

LEMMA ReplaceFacts ==
    ASSUME NEW e \in Env, NEW k \in Key, NEW v \in Value
    PROVE  /\ Replace(e, k, v) \in Env
           /\ \A j \in Key : j # k => Replace(e, k, v)[j] = e[j]
           /\ 1 \in DOMAIN Replace(e, k, v)[k] /\ Replace(e, k, v)[k][1] = v
           /\ Len(e[k]) <= 1 => \A i \in DOMAIN Replace(e, k, v)[k] : i = 1
<1>1. CASE e[k] = <<>>
  <2>1. Replace(e, k, v) = SetAbsent(e, k, v)
    BY <1>1 DEF Replace
  <2>2. Len(<<v>>) = 1 /\ <<v>>[1] = v /\ DOMAIN <<v>> = {1}
    OBVIOUS
  <2>3. QED
    BY <1>1, <2>1, <2>2, SetFacts
<1>2. CASE e[k] # <<>>
  <2>1. PICK s \in Lines : s = e[k]
    BY DEF Env
  <2>2. Replace(e, k, v) = [e EXCEPT ![k] = [s EXCEPT ![1] = v]]
    BY <1>2, <2>1 DEF Replace
  <2>3. /\ [s EXCEPT ![1] = v] \in Lines /\ [s EXCEPT ![1] = v][1] = v
        /\ DOMAIN [s EXCEPT ![1] = v] = 1..Len(s) /\ Len(s) \in {1, 2}
    BY <1>2, <2>1, LineSteps
  <2>4. Replace(e, k, v) \in Env
    BY <2>2, <2>3 DEF Env
  <2>5. Replace(e, k, v)[k] = [s EXCEPT ![1] = v] /\ \A j \in Key : j # k => Replace(e, k, v)[j] = e[j]
    BY <2>2 DEF Env
  <2>6. QED
    BY <2>1, <2>3, <2>4, <2>5
<1>3. QED
  BY <1>1, <1>2

\* A key that is filled keeps its line, unless there is none or only the placeholder.
LEMMA FillFacts ==
    ASSUME NEW e \in Env, NEW k \in Key, NEW v \in Value
    PROVE  /\ Fill(e, k, v) \in Env
           /\ \A j \in Key : j # k => Fill(e, k, v)[j] = e[j]
           /\ Fill(e, k, v)[k] = e[k] \/ First(e, k) \in {None, Placeholder}
           /\ Len(e[k]) <= 1 =>
                 \/ Fill(e, k, v)[k] = e[k]
                 \/ \A i \in DOMAIN Fill(e, k, v)[k] : Fill(e, k, v)[k][i] = v
<1>1. CASE e[k] = <<>>
  <2>1. Fill(e, k, v) = SetAbsent(e, k, v)
    BY <1>1 DEF Fill
  <2>2. <<v>>[1] = v /\ DOMAIN <<v>> = {1}
    OBVIOUS
  <2>3. QED
    BY <1>1, <2>1, <2>2, SetFacts DEF First
<1>2. CASE e[k] # <<>> /\ ~Configured(Head(e[k])) /\ Configured(v)
  <2>1. Fill(e, k, v) = Replace(e, k, v)
    BY <1>2 DEF Fill
  <2>2. First(e, k) = Placeholder
    BY <1>2 DEF First, Configured
  <2>3. QED
    BY <2>1, <2>2, ReplaceFacts
<1>3. CASE e[k] # <<>> /\ ~(~Configured(Head(e[k])) /\ Configured(v))
  <2>1. Fill(e, k, v) = e
    BY <1>3, SetFacts DEF Fill
  <2>2. QED
    BY <2>1
<1>4. QED
  BY <1>1, <1>2, <1>3

-----------------------------------------------------------------------------
(* The invariant.  World is about the project and its surroundings, RunOK   *)
(* about the run by itself, and Quiet about what still holds of its plan    *)
(* when nobody has changed anything since it was made.                      *)

\* No run puts the URL of Redis Cloud anywhere but into REDIS_URL.
PlainEnv(e) == \A k \in Key \ {"REDIS_URL"} : \A i \in DOMAIN e[k] : e[k][i] # Cloud

World ==
    /\ env \in Env
    /\ git \in [ignored : BOOLEAN, tracked : BOOLEAN]
    /\ docker \in [up : BOOLEAN, box : {"absent", "stopped", "running"}, port : Port \cup {0},
                   taken : SUBSET Port]
    /\ docker.box # "absent" => docker.port \in Port
    /\ cloud \in {"none", "making", "ready"}
    /\ skill \in [db : {"none", "external", "container", "cloud"}, product : BOOLEAN]
    /\ pack \in {"absent", "users", "torn", "copied"}
    /\ last \in Options \cup {None}
    /\ edits \in 0..MaxEdits
    /\ PlainEnv(env)

\* The URL that a run has when it plans.
UrlOf(o) == IF o.database = "url" THEN Flag ELSE IF o.database = "cloud" THEN Cloud ELSE None

RunOK ==
    /\ run \in Run
    /\ Running => run.opts \in Options
    /\ run.pc \in {"preflight", "resolve", "await"} => run.opts.database = "cloud"
    /\ run.pc = "plan" => run.url = UrlOf(run.opts)
    /\ run.pc = "database" /\ run.db.action \in {"start", "new"} =>
          run.db.url \in {Local(p) : p \in Port}
    /\ run.envUrl # None => PlainEnv(run.envUrl)
    /\ run.envProduct # None => PlainEnv(run.envProduct)

\* The secrets that e has and base does not.
Adds(base, e) ==
    \E k \in Key : \E i \in DOMAIN e[k] :
        Secret(k, e[k][i]) /\ \A l \in Key : ~Holds(base, l, e[k][i])

\* .env is out of git, or will be before it is written.
Careful ==
    /\ ~git.tracked
    /\ git.ignored \/ (run.ignore /\ run.pc \in {"database", "ignore"})

Keeps(base, e, o) ==
    \A k \in Key :
        Loaded(base, k) # None /\ Configured(Loaded(base, k)) /\ Loaded(e, k) # Loaded(base, k)
            => k = "REDIS_URL" /\ Replaces(o)

\* Writing e over base hands git no secret and changes nothing that is configured.
Harmless(base, e) == (Adds(base, e) => Careful) /\ Keeps(base, e, run.opts)

Written(e, planned) == IF planned = None THEN e ELSE planned

Quiet ==
    run.quiet =>
        /\ (run.pc \in {"resolve", "await"} \/ (run.pc = "plan" /\ run.opts.database = "cloud"))
              => ~Refused(run.opts, Cloud)
        /\ run.pc \in {"database", "ignore", "writeUrl"} =>
              /\ Harmless(env, Written(env, run.envUrl))
              /\ Harmless(Written(env, run.envUrl), Written(Written(env, run.envUrl), run.envProduct))
        /\ run.pc = "writeProduct" => Harmless(env, Written(env, run.envProduct))
        /\ run.pc = "copy" => pack = "torn"

IInv == World /\ RunOK /\ Quiet

LEMMA Typed == IInv => TypeOK
  BY DEF IInv, World, RunOK, TypeOK

-----------------------------------------------------------------------------
(* The plan.                                                               *)

LEMMA OptionFacts ==
    ASSUME NEW o \in Options
    PROVE  /\ o.database \in Choice /\ o.product \in BOOLEAN /\ o.apiKey \in BOOLEAN
           /\ o.product => o.database \in {"auto", "url", "cloud"}
           /\ o.apiKey => o.product
           /\ UrlOf(o) \in Value \cup {None}
           /\ o # None
  BY InitAssumption, NoneAssumption, ValueFacts DEF Options, UrlOf

\* The database of a plan: one with an action has a URL, and one to be started a local one.
LEMMA DatabaseFacts ==
    ASSUME World, NEW o \in Options, NEW u \in Value \cup {None}
    PROVE  LET db == PlannedDatabase(o, u)
           IN  /\ db \in Database
               /\ db.action \notin {"none", "noPort"} => db.url \in Value
               /\ db.action \in {"start", "new"} => db.url \in {Local(p) : p \in Port}
               /\ u # None => db = [action |-> "provided", url |-> u, ours |-> FALSE]
<1> DEFINE db == PlannedDatabase(o, u)
           OK(d) == /\ d \in Database
                    /\ d.action \notin {"none", "noPort"} => d.url \in Value
                    /\ d.action \in {"start", "new"} => d.url \in {Local(p) : p \in Port}
<1>1. ASSUME NEW url \in Value PROVE OK(ExistingEnv(url))
  BY <1>1 DEF World, ExistingEnv, Database, Action
<1>2. ASSUME NEW b \in BOOLEAN PROVE OK(LocalDatabase(b))
  <2> DEFINE stored == First(env, "REDIS_URL")
             Fresh(action) ==
               IF \E p \in Port : Free(p)
               THEN [action |-> action, url |-> Local(FreePort), ours |-> TRUE]
               ELSE [action |-> "noPort", url |-> None, ours |-> FALSE]
  <2>1. \A a \in {"down", "new"} : OK(Fresh(a))
    BY FreePortFacts, ValueFacts DEF Database, Action
  <2>2. stored \in Value \cup {None}
    BY ReadFacts, KeyFacts DEF World
  <2>3. CASE stored # None /\ ~b
    <3>1. OK([action |-> "placeholder", url |-> stored, ours |-> FALSE])
      BY <2>2, <2>3 DEF Database, Action
    <3>2. OK(ExistingEnv(stored))
      BY <1>1, <2>2, <2>3
    <3>3. LocalDatabase(b) = IF stored = Placeholder
             THEN [action |-> "placeholder", url |-> stored, ours |-> FALSE] ELSE ExistingEnv(stored)
      BY <2>3 DEF LocalDatabase
    <3>4. QED
      BY <3>1, <3>2, <3>3
  <2>4. CASE ~(stored # None /\ ~b)
    <3>1. docker.box # "absent" =>
             /\ OK([action |-> "running", url |-> Local(docker.port), ours |-> TRUE])
             /\ OK([action |-> "start", url |-> Local(docker.port), ours |-> TRUE])
      BY ValueFacts DEF World, Database, Action
    <3>2. LocalDatabase(b) =
             IF ~docker.up THEN Fresh("down")
             ELSE IF docker.box = "absent" THEN Fresh("new")
             ELSE [action |-> IF docker.box = "running" THEN "running" ELSE "start",
                   url |-> Local(docker.port), ours |-> TRUE]
      BY <2>4 DEF LocalDatabase
    <3>3. QED
      BY <2>1, <3>1, <3>2
  <2>5. QED
    BY <2>3, <2>4
<1>3. OK(NoDatabase) /\ OK([action |-> "placeholder", url |-> Placeholder, ours |-> FALSE])
  BY ValueFacts DEF NoDatabase, Database, Action
<1>4. u # None => OK([action |-> "provided", url |-> u, ours |-> FALSE])
  BY DEF Database, Action
<1>5. OK(db)
  <2>1. Replaces(o) \in BOOLEAN
    BY DEF Replaces
  <2>2. OK(LocalDatabase(Replaces(o)))
    BY <1>2, <2>1
  <2>3. QED
    BY <1>3, <1>4, <2>2 DEF PlannedDatabase
<1>6. u # None => db = [action |-> "provided", url |-> u, ours |-> FALSE]
  BY DEF PlannedDatabase
<1>7. QED
  BY <1>5, <1>6

\* What a plan writes for the product: what .env records, the flag, or a placeholder.
LEMMA ProductFacts ==
    ASSUME World, NEW o \in Options
    PROVE  /\ Wired(o) => PlannedEndpoint(o) \in Value
           /\ PlannedEndpoint(o) \in Value \cup {None} /\ PlannedEndpoint(o) # Cloud
           /\ PlannedKey(o) \in Value /\ PlannedKey(o) # Cloud
           /\ \/ PlannedKey(o) = Placeholder
              \/ PlannedKey(o) = Flag /\ o.apiKey
              \/ First(env, "API_KEY") # None /\ PlannedKey(o) = First(env, "API_KEY")
<1> DEFINE e == First(env, "ENDPOINT")
           k == First(env, "API_KEY")
<1>1. e \in Value \cup {None} /\ k \in Value \cup {None}
  BY ReadFacts, KeyFacts DEF World
<1>2. e # Cloud /\ k # Cloud
  BY ReadFacts, KeyFacts, ValueFacts DEF World, PlainEnv
<1>3. o.apiKey \in BOOLEAN /\ o.product \in BOOLEAN
  BY OptionFacts
<1>4. QED
  BY <1>1, <1>2, <1>3, ValueFacts DEF PlannedEndpoint, PlannedKey, Prefer, Wired

\* The two contents that a plan writes, from a .env that is not refused.
LEMMA ContentFacts ==
    ASSUME World, ~Duplicate, NEW o \in Options,
           NEW db \in Database, db.action # "noPort", db.action # "none" => db.url \in Value
    PROVE  LET w == EnvWithUrl(o, db)
               p == EnvWithProduct(o, db)
           IN  /\ w \in Env /\ p \in Env /\ PlainEnv(w) /\ PlainEnv(p)
               /\ \A k \in Key : k # "REDIS_URL" => w[k] = env[k]
               /\ p["REDIS_URL"] = w["REDIS_URL"]
               /\ db.action = "none" => w = env
               /\ ~Wired(o) => p = w
               /\ ~Replaces(o) /\ env["REDIS_URL"] # <<>> => w = env
               /\ Replaces(o) /\ db.action # "none" =>
                     1 \in DOMAIN w["REDIS_URL"] /\ w["REDIS_URL"][1] = db.url
               /\ \/ p["API_KEY"] = env["API_KEY"]
                  \/ \A i \in DOMAIN p["API_KEY"] : p["API_KEY"][i] = PlannedKey(o)
               /\ \A k \in Key : k # "REDIS_URL" =>
                     p[k] = env[k] \/ First(env, k) \in {None, Placeholder}
<1> DEFINE w == EnvWithUrl(o, db)
           f == Fill(w, "ENDPOINT", PlannedEndpoint(o))
           p == EnvWithProduct(o, db)
<1>1. env \in Env /\ PlainEnv(env) /\ \A k \in Key : Len(env[k]) <= 1
  BY ReadFacts DEF World, Duplicate
<1>2. /\ w \in Env /\ \A k \in Key : k # "REDIS_URL" => w[k] = env[k]
      /\ db.action = "none" => w = env
      /\ ~Replaces(o) /\ env["REDIS_URL"] # <<>> => w = env
      /\ Replaces(o) /\ db.action # "none" =>
            1 \in DOMAIN w["REDIS_URL"] /\ w["REDIS_URL"][1] = db.url
  BY <1>1, SetFacts, ReplaceFacts, KeyFacts DEF EnvWithUrl
<1>3. PlainEnv(w)
  BY <1>1, <1>2 DEF PlainEnv
<1>4. CASE ~Wired(o)
  <2>1. p = w
    BY <1>4 DEF EnvWithProduct
  <2>2. QED
    BY <1>2, <1>3, <2>1, KeyFacts
<1>5. CASE Wired(o)
  <2>1. PlannedEndpoint(o) \in Value /\ PlannedEndpoint(o) # Cloud /\ PlannedKey(o) \in Value /\ PlannedKey(o) # Cloud
    BY <1>5, ProductFacts
  <2>2. p = Fill(f, "API_KEY", PlannedKey(o))
    BY <1>5 DEF EnvWithProduct
  <2>3. /\ f \in Env /\ \A k \in Key : k # "ENDPOINT" => f[k] = w[k]
        /\ f["ENDPOINT"] = w["ENDPOINT"] \/ First(w, "ENDPOINT") \in {None, Placeholder}
        /\ \/ f["ENDPOINT"] = w["ENDPOINT"]
           \/ \A i \in DOMAIN f["ENDPOINT"] : f["ENDPOINT"][i] = PlannedEndpoint(o)
    <3>1. Len(w["ENDPOINT"]) <= 1
      BY <1>1, <1>2, KeyFacts
    <3>2. QED
      BY <1>2, <2>1, <3>1, FillFacts, KeyFacts
  <2>4. /\ p \in Env /\ \A k \in Key : k # "API_KEY" => p[k] = f[k]
        /\ p["API_KEY"] = f["API_KEY"] \/ First(f, "API_KEY") \in {None, Placeholder}
        /\ \/ p["API_KEY"] = f["API_KEY"]
           \/ \A i \in DOMAIN p["API_KEY"] : p["API_KEY"][i] = PlannedKey(o)
    <3>1. Len(f["API_KEY"]) <= 1
      BY <1>1, <1>2, <2>3, KeyFacts
    <3> HIDE DEF f, p
    <3>2. PICK v \in Value : v = PlannedKey(o)
      BY <2>1
    <3>3. p = Fill(f, "API_KEY", v)
      BY <2>2, <3>2
    <3>4. /\ p \in Env /\ \A k \in Key : k # "API_KEY" => p[k] = f[k]
          /\ p["API_KEY"] = f["API_KEY"] \/ First(f, "API_KEY") \in {None, Placeholder}
      BY <2>3, <3>3, FillFacts, KeyFacts
    <3>5. p["API_KEY"] = f["API_KEY"] \/ \A i \in DOMAIN p["API_KEY"] : p["API_KEY"][i] = v
      BY <2>3, <3>1, <3>3, FillFacts, KeyFacts
    <3>6. QED
      BY <3>2, <3>4, <3>5
  <2>5. First(w, "ENDPOINT") = First(env, "ENDPOINT") /\ First(f, "API_KEY") = First(env, "API_KEY")
    BY <1>2, <2>3, KeyFacts DEF First
  <2>6. /\ f["API_KEY"] = env["API_KEY"] /\ w["ENDPOINT"] = env["ENDPOINT"]
        /\ p["ENDPOINT"] = f["ENDPOINT"] /\ p["REDIS_URL"] = w["REDIS_URL"]
    BY <1>2, <2>3, <2>4, KeyFacts
  <2>7. PlainEnv(p)
    <3>1. SUFFICES ASSUME NEW k \in Key, k # "REDIS_URL", NEW i \in DOMAIN p[k]
                   PROVE  p[k][i] # Cloud
      BY DEF PlainEnv
    <3>2. CASE k = "ENDPOINT"
      BY <1>1, <2>1, <2>3, <2>6, <3>1, <3>2 DEF PlainEnv
    <3>3. CASE k = "API_KEY"
      BY <1>1, <2>1, <2>4, <2>6, <3>1, <3>3 DEF PlainEnv
    <3>4. QED
      BY <3>1, <3>2, <3>3, KeyFacts
  <2>8. \A k \in Key : k # "REDIS_URL" => p[k] = env[k] \/ First(env, k) \in {None, Placeholder}
    BY <2>3, <2>4, <2>5, <2>6, KeyFacts
  <2>9. QED
    BY <1>2, <1>3, <1>5, <2>4, <2>6, <2>7, <2>8
<1>6. QED
  BY <1>4, <1>5

\* Whatever of the two contents adds a secret, the plan has seen that a secret is added: only an
\* explicit choice takes a secret out of REDIS_URL, and that choice brings one of its own.
LEMMA SecretsSeen ==
    ASSUME World, ~Duplicate, NEW o \in Options,
           NEW db, db = PlannedDatabase(o, UrlOf(o)), db.action # "noPort",
           \/ Adds(env, EnvWithUrl(o, db))
           \/ Adds(EnvWithUrl(o, db), EnvWithProduct(o, db))
    PROVE  /\ AddsSecret(EnvWithProduct(o, db))
           /\ db.action # "none" \/ Wired(o)
<1> DEFINE w == EnvWithUrl(o, db)
           p == EnvWithProduct(o, db)
<1>1. /\ db \in Database /\ (db.action # "none" => db.url \in Value)
      /\ UrlOf(o) # None => db = [action |-> "provided", url |-> UrlOf(o), ours |-> FALSE]
  BY DatabaseFacts, OptionFacts
<1>2. /\ w \in Env /\ p \in Env /\ \A k \in Key : k # "REDIS_URL" => w[k] = env[k]
      /\ p["REDIS_URL"] = w["REDIS_URL"]
      /\ db.action = "none" => w = env
      /\ ~Wired(o) => p = w
      /\ ~Replaces(o) /\ env["REDIS_URL"] # <<>> => w = env
      /\ Replaces(o) /\ db.action # "none" =>
            1 \in DOMAIN w["REDIS_URL"] /\ w["REDIS_URL"][1] = db.url
      /\ \/ p["API_KEY"] = env["API_KEY"]
         \/ \A i \in DOMAIN p["API_KEY"] : p["API_KEY"][i] = PlannedKey(o)
  BY <1>1, ContentFacts
<1>3. \A e \in Env : ~Adds(e, e)
  BY DEF Adds, Holds
<1>4. db.action # "none" \/ Wired(o)
  BY <1>2, <1>3 DEF World
<1>5. CASE Adds(env, w)
  <2>1. PICK k \in Key : \E i \in DOMAIN w[k] :
           Secret(k, w[k][i]) /\ \A l \in Key : ~Holds(env, l, w[k][i])
    BY <1>5 DEF Adds
  <2>2. k = "REDIS_URL"
    BY <1>2, <2>1 DEF Holds
  <2>3. AddsSecret(p)
    BY <1>2, <2>1, <2>2 DEF AddsSecret
  <2>4. QED
    BY <1>4, <2>3
<1>6. CASE Adds(w, p)
  <2>1. PICK k \in Key : \E i \in DOMAIN p[k] :
           Secret(k, p[k][i]) /\ \A l \in Key : ~Holds(w, l, p[k][i])
    BY <1>6 DEF Adds
  <2>2. PICK i \in DOMAIN p[k] : Secret(k, p[k][i]) /\ \A l \in Key : ~Holds(w, l, p[k][i])
    BY <2>1
  <2>3. k = "API_KEY"
    BY <1>2, <2>2, KeyFacts DEF Holds, Secret
  <2>4. p[k][i] = PlannedKey(o)
    BY <1>2, <2>2, <2>3, KeyFacts DEF Holds
  <2>5. p[k][i] = Flag /\ o.apiKey
    <3>1. \A j \in DOMAIN env["API_KEY"] : ~(env["API_KEY"][j] = p[k][i])
      BY <1>2, <2>2, KeyFacts DEF Holds
    <3>2. ~(First(env, "API_KEY") # None /\ PlannedKey(o) = First(env, "API_KEY"))
      BY <2>4, <3>1, ReadFacts, KeyFacts DEF World
    <3>3. PlannedKey(o) # Placeholder
      BY <2>2, <2>4 DEF Secret, Placeholder
    <3>4. QED
      BY <2>4, <3>2, <3>3, ProductFacts
  <2>6. CASE \A l \in Key : ~Holds(env, l, Flag)
    <3>1. AddsSecret(p)
      BY <2>2, <2>5, <2>6 DEF AddsSecret
    <3>2. QED
      BY <1>4, <3>1
  <2>7. CASE \E l \in Key : Holds(env, l, Flag)
    <3>1. Holds(env, "REDIS_URL", Flag) /\ ~Holds(w, "REDIS_URL", Flag)
      BY <1>2, <2>2, <2>5, <2>7, KeyFacts DEF Holds
    <3>2. env["REDIS_URL"] # <<>> /\ w # env
      BY <3>1 DEF Holds
    <3>3. Replaces(o) /\ db.action # "none"
      BY <1>2, <3>2
    <3>4. o.database \in {"url", "cloud"}
      BY <2>5, <3>3, OptionFacts DEF Replaces
    <3>5. 1 \in DOMAIN w["REDIS_URL"] /\ w["REDIS_URL"][1] = UrlOf(o)
      BY <1>1, <1>2, <3>3, <3>4, ValueFacts DEF UrlOf
    <3>6. UrlOf(o) = Cloud
      BY <3>1, <3>4, <3>5 DEF Holds, UrlOf
    <3>7. \A l \in Key : ~Holds(env, l, Cloud)
      <4>1. \A l \in Key \ {"REDIS_URL"} : ~Holds(env, l, Cloud)
        BY DEF World, PlainEnv, Holds
      <4>2. Len(env["REDIS_URL"]) <= 1 /\ DOMAIN env["REDIS_URL"] = 1..Len(env["REDIS_URL"])
            /\ Len(env["REDIS_URL"]) \in 0..2
        BY ReadFacts, KeyFacts DEF World, Duplicate
      <4>3. \A j \in DOMAIN env["REDIS_URL"] : j = 1
        BY <4>2
      <4>4. ~Holds(env, "REDIS_URL", Cloud)
        BY <3>1, <4>3, ValueFacts DEF Holds
      <4>5. QED
        BY <4>1, <4>4
    <3>8. Secret("REDIS_URL", Cloud)
      BY DEF Secret, Cloud
    <3>9. 1 \in DOMAIN p["REDIS_URL"] /\ p["REDIS_URL"][1] = Cloud
      BY <1>2, <3>5, <3>6
    <3>10. AddsSecret(p)
      BY <3>7, <3>8, <3>9, KeyFacts DEF AddsSecret
    <3>11. QED
      BY <1>4, <3>10
  <2>8. QED
    BY <2>6, <2>7
<1>7. QED
  BY <1>5, <1>6

\* What is configured stays, but for a REDIS_URL that the choice replaces.
LEMMA ConfiguredStays ==
    ASSUME World, ~Duplicate, NEW o \in Options,
           NEW db, db = PlannedDatabase(o, UrlOf(o)), db.action # "noPort"
    PROVE  /\ Keeps(env, EnvWithUrl(o, db), o)
           /\ Keeps(EnvWithUrl(o, db), EnvWithProduct(o, db), o)
<1> DEFINE w == EnvWithUrl(o, db)
           p == EnvWithProduct(o, db)
<1>1. db \in Database /\ (db.action # "none" => db.url \in Value)
  BY DatabaseFacts, OptionFacts
<1>2. /\ w \in Env /\ p \in Env /\ \A k \in Key : k # "REDIS_URL" => w[k] = env[k]
      /\ p["REDIS_URL"] = w["REDIS_URL"]
      /\ ~Replaces(o) /\ env["REDIS_URL"] # <<>> => w = env
      /\ \A k \in Key : k # "REDIS_URL" => p[k] = env[k] \/ First(env, k) \in {None, Placeholder}
  BY <1>1, ContentFacts
<1>3. Keeps(env, w, o)
  <2>1. SUFFICES ASSUME NEW k \in Key, Loaded(env, k) # None, Loaded(w, k) # Loaded(env, k)
                 PROVE  k = "REDIS_URL" /\ Replaces(o)
    BY DEF Keeps
  <2>2. k = "REDIS_URL"
    BY <1>2, <2>1 DEF Loaded
  <2>3. env["REDIS_URL"] # <<>> /\ w # env
    BY <2>1, <2>2 DEF Loaded
  <2>4. QED
    BY <1>2, <2>2, <2>3
<1>4. Keeps(w, p, o)
  <2>1. SUFFICES ASSUME NEW k \in Key, Loaded(w, k) # None, Configured(Loaded(w, k)),
                        Loaded(p, k) # Loaded(w, k)
                 PROVE  FALSE
    BY DEF Keeps
  <2>2. k # "REDIS_URL" /\ w[k] = env[k] /\ p[k] # env[k]
    BY <1>2, <2>1 DEF Loaded
  <2>3. Len(env[k]) <= 1
    BY ReadFacts DEF World, Duplicate
  <2>4. Loaded(w, k) = First(env, k)
    BY <2>2, <2>3, ReadFacts DEF World, Loaded
  <2>5. QED
    BY <1>2, <2>1, <2>2, <2>4 DEF Configured
<1>5. QED
  BY <1>3, <1>4

-----------------------------------------------------------------------------
(* The steps.                                                              *)

\* A run that has ended has nothing left to hold to.
LEMMA Ended ==
    ASSUME NEW x \in Ends, run' = Idle(x)
    PROVE  RunOK' /\ Quiet'
<1>1. Idle(x) \in Run
  BY DEF Idle, Run, Line, NoDatabase, Database, Action, Ends, Phase
<1>2. run'.pc = x /\ run'.envUrl = None /\ run'.envProduct = None
  BY DEF Idle
<1>3. QED
  BY <1>1, <1>2 DEF RunOK, Quiet, Running, Ends

\* A step that only takes the run on.
LEMMA Onward ==
    ASSUME RunOK, Running, NEW pc \in Phase \ Ends, Goto(pc),
           pc \in {"resolve", "await"} => run.opts.database = "cloud",
           pc \notin {"preflight", "plan", "database"}
    PROVE  /\ RunOK' /\ run'.pc = pc /\ run'.quiet = run.quiet /\ run'.opts = run.opts
           /\ run'.envUrl = run.envUrl /\ run'.envProduct = run.envProduct /\ run'.ignore = run.ignore
<1>1. /\ run' = [run EXCEPT !.pc = pc] /\ run \in Run /\ run' \in Run
  BY DEF RunOK, Goto, Run
<1>2. /\ run'.pc = pc /\ run'.quiet = run.quiet /\ run'.opts = run.opts /\ run'.ignore = run.ignore
      /\ run'.envUrl = run.envUrl /\ run'.envProduct = run.envProduct
  BY <1>1 DEF Run
<1>3. QED
  BY <1>1, <1>2 DEF RunOK, Running, Ends

\* With the URL at hand, a refusal depends on .env and git only.
LEMMA RefusedSame ==
    ASSUME run'.opts = run.opts, env' = env, git' = git
    PROVE  Refused(run.opts, Cloud)' <=> Refused(run.opts, Cloud)
<1>1. Cloud # None
  BY ValueFacts
<1> DEFINE o == run.opts
           db == [action |-> "provided", url |-> Cloud, ours |-> FALSE]
<1>2. PlannedDatabase(o, Cloud) = db /\ PlannedDatabase(o, Cloud)' = db
  BY <1>1 DEF PlannedDatabase
<1>3. Wired(o)' = Wired(o) /\ EnvWithProduct(o, db)' = EnvWithProduct(o, db)
  BY DEF Wired, First, EnvWithProduct, EnvWithUrl, PlannedEndpoint, PlannedKey, Replaces
<1>4. Duplicate' <=> Duplicate
  BY DEF Duplicate
<1>5. AddsSecret(EnvWithProduct(o, db))' <=> AddsSecret(EnvWithProduct(o, db))
  <2> DEFINE e == EnvWithProduct(o, db)
  <2>1. e' = e
    BY <1>3
  <2> HIDE DEF e
  <2>2. AddsSecret(e)' <=> AddsSecret(e)
    BY <2>1 DEF AddsSecret, Holds, Secret
  <2>3. QED
    BY <2>2 DEF e
<1>6. QED
  BY <1>2, <1>3, <1>4, <1>5 DEF Refused

LEMMA KeepsSelf == \A e, o : ~Adds(e, e) /\ Keeps(e, e, o)
  BY DEF Adds, Holds, Keeps

LEMMA InitInv == Init => IInv
<1> SUFFICES ASSUME Init PROVE IInv
  OBVIOUS
<1>1. env \in Env /\ \A k \in Key : DOMAIN env[k] = {}
  <2>1. <<>> \in Seq(Value) /\ Len(<<>>) = 0 /\ DOMAIN <<>> = {}
    OBVIOUS
  <2>2. Len(<<>>) <= 2
    BY <2>1
  <2>3. <<>> \in Lines
    BY <2>1, <2>2, LinesFacts, Zenon
  <2>4. QED
    BY <2>1, <2>3 DEF Init, Env
<1>2. World
  BY <1>1, InitAssumption DEF Init, World, PlainEnv
<1>3. run = Idle("none") /\ Idle("none") \in Run
  BY DEF Init, Idle, Run, Line, NoDatabase, Database, Action, Ends, Phase
<1>4. RunOK /\ Quiet
  BY <1>3 DEF Idle, RunOK, Quiet, Running, Ends
<1>5. QED
  BY <1>2, <1>4 DEF IInv

LEMMA StartInv == IInv /\ Start => IInv'
<1> SUFFICES ASSUME IInv, Start PROVE IInv'
  OBVIOUS
<1>1. PICK o \in Options :
          /\ run' = [Idle("none") EXCEPT
                        !.pc = IF o.database = "cloud" THEN "preflight" ELSE "plan",
                        !.opts = o,
                        !.url = IF o.database = "url" THEN Flag ELSE None]
          /\ last' = IF o = last THEN last ELSE None
  BY DEF Start
<1>2. World'
  BY <1>1 DEF IInv, World, Start, project
<1>3. Idle("none") \in Run
  BY DEF Idle, Run, Line, NoDatabase, Database, Action, Ends, Phase
<1>4. run' \in Run
  <2>1. PICK pc \in Phase, url \in Line :
           run' = [Idle("none") EXCEPT !.pc = pc, !.opts = o, !.url = url]
    <3>1. (IF o.database = "cloud" THEN "preflight" ELSE "plan") \in Phase
      BY DEF Phase
    <3>2. (IF o.database = "url" THEN Flag ELSE None) \in Line
      BY ValueFacts DEF Line
    <3>3. QED
      BY <1>1, <3>1, <3>2
  <2>2. QED
    BY <1>3, <2>1 DEF Run
<1>5. /\ run'.pc = IF o.database = "cloud" THEN "preflight" ELSE "plan"
      /\ run'.opts = o /\ run'.url = IF o.database = "url" THEN Flag ELSE None
      /\ run'.envUrl = None /\ run'.envProduct = None
  BY <1>1 DEF Idle
<1>6. RunOK'
  BY <1>4, <1>5 DEF RunOK, UrlOf, Running
<1>7. Quiet'
  BY <1>5 DEF Quiet
<1>8. QED
  BY <1>2, <1>6, <1>7 DEF IInv

LEMMA PreflightInv == IInv /\ Preflight => IInv'
<1> SUFFICES ASSUME IInv, Preflight PROVE IInv'
  OBVIOUS
<1>1. World'
  BY DEF IInv, World, Preflight, project
<1>2. CASE Refused(run.opts, Cloud) /\ End("refused")
  BY <1>1, <1>2, Ended DEF End, IInv, Ends
<1>3. CASE ~Refused(run.opts, Cloud) /\ Goto("resolve")
  <2>1. RunOK' /\ run'.pc = "resolve" /\ run'.opts = run.opts
    BY <1>3, Onward DEF IInv, Preflight, At, RunOK, Running, Ends, Phase
  <2>3. ~Refused(run.opts, Cloud)'
    BY <1>3, <2>1, RefusedSame DEF Preflight, project
  <2>4. Quiet'
    BY <2>1, <2>3 DEF Quiet
  <2>5. QED
    BY <1>1, <2>1, <2>4 DEF IInv
<1>4. QED
  BY <1>2, <1>3 DEF Preflight

LEMMA ResolveInv == IInv /\ Resolve => IInv'
<1> SUFFICES ASSUME IInv, Resolve PROVE IInv'
  OBVIOUS
<1>1. World'
  BY DEF IInv, World, Resolve, project
<1>2. CASE End("failed")
  BY <1>1, <1>2, Ended DEF End, IInv, Ends
<1>3. CASE Goto("await")
  <2>1. RunOK' /\ run'.pc = "await" /\ run'.opts = run.opts /\ run'.quiet = run.quiet
    BY <1>3, Onward DEF IInv, Resolve, At, RunOK, Running, Ends, Phase
  <2>2. run.quiet => ~Refused(run.opts, Cloud)'
    BY <2>1, RefusedSame DEF Resolve, At, project, IInv, Quiet
  <2>3. Quiet'
    BY <2>1, <2>2 DEF Quiet
  <2>4. QED
    BY <1>1, <2>1, <2>3 DEF IInv
<1>4. QED
  BY <1>2, <1>3 DEF Resolve

LEMMA AwaitInv == IInv /\ Await => IInv'
<1> SUFFICES ASSUME IInv, Await PROVE IInv'
  OBVIOUS
<1>1. World'
  BY DEF IInv, World, Await, project
<1>2. CASE End("failed")
  BY <1>1, <1>2, Ended DEF End, IInv, Ends
<1>3. CASE run' = [run EXCEPT !.pc = "plan", !.url = Cloud]
  <2>1. run \in Run /\ Running /\ run.opts.database = "cloud"
    BY DEF IInv, RunOK, Await, At, Running, Ends
  <2>2. /\ run' \in Run /\ run'.pc = "plan" /\ run'.url = Cloud /\ run'.opts = run.opts
        /\ run'.quiet = run.quiet /\ run'.envUrl = run.envUrl /\ run'.envProduct = run.envProduct
    BY <1>3, <2>1, ValueFacts DEF Run, Phase, Line
  <2>3. RunOK'
    BY <2>1, <2>2 DEF IInv, RunOK, UrlOf, Running
  <2>4. run.quiet => ~Refused(run.opts, Cloud)'
    BY <2>2, RefusedSame DEF Await, At, project, IInv, Quiet
  <2>5. Quiet'
    BY <2>2, <2>4 DEF Quiet
  <2>6. QED
    BY <1>1, <2>3, <2>5 DEF IInv
<1>4. QED
  BY <1>2, <1>3 DEF Await

LEMMA PlanInv == IInv /\ Plan => IInv'
<1> SUFFICES ASSUME IInv, Plan PROVE IInv'
  OBVIOUS
<1> DEFINE o == run.opts
           db == PlannedDatabase(o, run.url)
           w == EnvWithUrl(o, db)
           p == EnvWithProduct(o, db)
<1>1. World' /\ World
  BY DEF IInv, World, Plan, project
<1>2. run \in Run /\ run.pc = "plan" /\ o \in Options /\ run.url = UrlOf(o)
  BY DEF IInv, RunOK, Plan, At, Running, Ends
<1>3. CASE Refused(o, run.url)
  BY <1>1, <1>3, Ended DEF Plan, End, IInv, Ends
<1>4. CASE ~Refused(o, run.url)
  <2>1. ~Duplicate /\ db.action # "noPort" /\ (git.tracked => ~AddsSecret(p))
    BY <1>4 DEF Refused
  <2>2. /\ db \in Database /\ (db.action # "none" => db.url \in Value)
        /\ db.action \in {"start", "new"} => db.url \in {Local(q) : q \in Port}
    BY <1>1, <1>2, <2>1, DatabaseFacts, OptionFacts
  <2>3. w \in Env /\ p \in Env /\ PlainEnv(w) /\ PlainEnv(p)
    BY <1>1, <1>2, <2>1, <2>2, ContentFacts
  <2>4. /\ run' = [run EXCEPT
              !.pc = "database", !.db = db,
              !.ignore = ~git.ignored /\ (db.action # "none" \/ Wired(o)),
              !.envUrl = IF w = env THEN None ELSE w,
              !.envProduct = IF p = w THEN None ELSE p,
              !.endpoint = IF Wired(o) THEN PlannedEndpoint(o) ELSE None,
              !.key = IF Wired(o) THEN PlannedKey(o) ELSE None,
              !.recorded = First(env, "ENDPOINT") # None]
        /\ env' = env /\ git' = git
    BY <1>4 DEF Plan, project
  <2>5. /\ (IF Wired(o) THEN PlannedEndpoint(o) ELSE None) \in Line
        /\ (IF Wired(o) THEN PlannedKey(o) ELSE None) \in Line
    BY <1>1, <1>2, ProductFacts DEF Line
  <2> HIDE DEF db, w, p, o
  <2>6. run' \in Run
    <3>1. PICK u \in Env \cup {None}, q \in Env \cup {None} :
             u = (IF w = env THEN None ELSE w) /\ q = (IF p = w THEN None ELSE p)
      BY <2>3
    <3>2. PICK e \in Line, k \in Line :
             /\ e = (IF Wired(o) THEN PlannedEndpoint(o) ELSE None)
             /\ k = (IF Wired(o) THEN PlannedKey(o) ELSE None)
      BY <2>5
    <3>3. PICK i \in BOOLEAN, d \in BOOLEAN :
             /\ i = (~git.ignored /\ (db.action # "none" \/ Wired(o)))
             /\ d = (First(env, "ENDPOINT") # None)
      OBVIOUS
    <3>4. run' = [run EXCEPT !.pc = "database", !.db = db, !.ignore = i, !.envUrl = u,
                             !.envProduct = q, !.endpoint = e, !.key = k, !.recorded = d]
      BY <2>4, <3>1, <3>2, <3>3, Zenon
    <3>5. [run EXCEPT !.pc = "database", !.db = db, !.ignore = i, !.envUrl = u] \in Run
      BY <1>2, <2>2 DEF Run, Phase
    <3>6. \A r \in Run : [r EXCEPT !.envProduct = q, !.endpoint = e, !.key = k, !.recorded = d] \in Run
      BY DEF Run
    <3>7. run' = [[run EXCEPT !.pc = "database", !.db = db, !.ignore = i, !.envUrl = u]
                     EXCEPT !.envProduct = q, !.endpoint = e, !.key = k, !.recorded = d]
      BY <3>4
    <3>8. QED
      BY <3>5, <3>6, <3>7
  <2>7. /\ run'.pc = "database" /\ run'.db = db /\ run'.opts = o /\ run'.quiet = run.quiet
        /\ run'.ignore = (~git.ignored /\ (db.action # "none" \/ Wired(o)))
        /\ run'.envUrl = IF w = env THEN None ELSE w
        /\ run'.envProduct = IF p = w THEN None ELSE p
    BY <1>2, <2>4 DEF Run, o
  <2>8. RunOK'
    BY <1>2, <2>2, <2>3, <2>6, <2>7 DEF RunOK
  <2>9. w # None /\ p # None /\ Written(env, run'.envUrl) = w /\ Written(w, run'.envProduct) = p
    BY <2>3, <2>7, NoneAssumption DEF Written
  <2>10. Adds(env, w) \/ Adds(w, p) => Careful'
    <3>1. ASSUME Adds(env, w) \/ Adds(w, p)
          PROVE  AddsSecret(p) /\ (db.action # "none" \/ Wired(o))
      <4>1. db = PlannedDatabase(o, UrlOf(o))
        BY <1>2 DEF db
      <4>2. QED
        BY <1>1, <1>2, <2>1, <3>1, <4>1, SecretsSeen DEF w, p
    <3>2. git \in [ignored : BOOLEAN, tracked : BOOLEAN]
      BY <1>1 DEF World
    <3>3. QED
      BY <2>1, <2>4, <2>7, <3>1, <3>2 DEF Careful
  <2>11. Keeps(env, w, o) /\ Keeps(w, p, o)
    <3>1. db = PlannedDatabase(o, UrlOf(o))
      BY <1>2 DEF db
    <3>2. QED
      BY <1>1, <1>2, <2>1, <3>1, ConfiguredStays DEF w, p
  <2>12. Quiet'
    <3>1. Written(env', run'.envUrl) = w /\ Written(w, run'.envProduct) = p
      BY <2>4, <2>9
    <3>2. /\ Harmless(env, Written(env, run.envUrl))'
          /\ Harmless(Written(env, run.envUrl), Written(Written(env, run.envUrl), run.envProduct))'
      BY <2>4, <2>7, <2>10, <2>11, <3>1 DEF Harmless
    <3>3. QED
      BY <2>7, <3>2 DEF Quiet
  <2>13. QED
    BY <1>1, <2>8, <2>12 DEF IInv
<1>5. QED
  BY <1>3, <1>4

LEMMA DatabaseInv == IInv /\ ApplyDatabase => IInv'
<1> SUFFICES ASSUME IInv, ApplyDatabase PROVE IInv'
  OBVIOUS
<1>1. /\ run \in Run /\ run.pc = "database" /\ Running
      /\ run.db.action \in {"start", "new"} => run.db.url.port \in Port
  BY ValueFacts DEF IInv, RunOK, ApplyDatabase, At, Running, Ends
<1>2. World'
  BY <1>1 DEF IInv, World, ApplyDatabase, project
<1>3. CASE End("failed")
  BY <1>2, <1>3, Ended DEF End, IInv, Ends
<1>4. CASE Goto("ignore")
  <2>1. /\ RunOK' /\ run'.pc = "ignore" /\ run'.opts = run.opts /\ run'.quiet = run.quiet
        /\ run'.envUrl = run.envUrl /\ run'.envProduct = run.envProduct /\ run'.ignore = run.ignore
    BY <1>1, <1>4, Onward DEF IInv, Ends, Phase
  <2>2. env' = env /\ git' = git
    BY DEF ApplyDatabase, project
  <2>3. Careful => Careful'
    BY <1>1, <2>1, <2>2 DEF Careful
  <2>4. Quiet'
    BY <1>1, <2>1, <2>2, <2>3 DEF IInv, Quiet, Harmless, Written
  <2>5. QED
    BY <1>2, <2>1, <2>4 DEF IInv
<1>5. QED
  BY <1>3, <1>4 DEF ApplyDatabase

LEMMA IgnoreInv == IInv /\ Ignore => IInv'
<1> SUFFICES ASSUME IInv, Ignore PROVE IInv'
  OBVIOUS
<1>1. run \in Run /\ run.pc = "ignore" /\ Running
  BY DEF IInv, RunOK, Ignore, At, Running, Ends
<1>2. World'
  BY DEF IInv, World, Ignore
<1>3. /\ RunOK' /\ run'.pc = "writeUrl" /\ run'.opts = run.opts /\ run'.quiet = run.quiet
      /\ run'.envUrl = run.envUrl /\ run'.envProduct = run.envProduct /\ run'.ignore = run.ignore
  BY <1>1, Onward DEF IInv, Ignore, Ends, Phase
<1>4. env' = env
  BY DEF Ignore
<1>5. Careful => Careful'
  BY <1>1, <1>3 DEF IInv, World, Ignore, Careful
<1>6. Quiet'
  BY <1>1, <1>3, <1>4, <1>5 DEF IInv, Quiet, Harmless, Written
<1>7. QED
  BY <1>2, <1>3, <1>6 DEF IInv

LEMMA WriteUrlInv == IInv /\ WriteUrl => IInv'
<1> SUFFICES ASSUME IInv, WriteUrl PROVE IInv'
  OBVIOUS
<1>1. run \in Run /\ run.pc = "writeUrl" /\ Running
  BY DEF IInv, RunOK, WriteUrl, At, Running, Ends
<1>2. env' = Written(env, run.envUrl) /\ git' = git
  BY DEF WriteUrl, Written
<1>3. env' \in Env /\ PlainEnv(env')
  BY <1>1, <1>2 DEF IInv, World, RunOK, Run, Written
<1>4. World'
  BY <1>3 DEF IInv, World, WriteUrl
<1>5. /\ RunOK' /\ run'.pc = "writeProduct" /\ run'.opts = run.opts /\ run'.quiet = run.quiet
      /\ run'.envUrl = run.envUrl /\ run'.envProduct = run.envProduct /\ run'.ignore = run.ignore
  BY <1>1, Onward DEF IInv, WriteUrl, Ends, Phase
<1>6. Careful => Careful'
  BY <1>1, <1>2, <1>5 DEF Careful
<1>7. run.quiet => Harmless(env', Written(env', run.envProduct))
  BY <1>1, <1>2 DEF IInv, Quiet
<1>8. run.quiet => Harmless(env, Written(env, run.envProduct))'
  BY <1>5, <1>6, <1>7 DEF Harmless, Written
<1>9. Quiet'
  BY <1>5, <1>8 DEF Quiet
<1>10. QED
  BY <1>4, <1>5, <1>9 DEF IInv

LEMMA WriteProductInv == IInv /\ WriteProduct => IInv'
<1> SUFFICES ASSUME IInv, WriteProduct PROVE IInv'
  OBVIOUS
<1>1. run \in Run /\ run.pc = "writeProduct" /\ Running
  BY DEF IInv, RunOK, WriteProduct, At, Running, Ends
<1>2. env' \in Env /\ PlainEnv(env')
  BY <1>1 DEF IInv, World, RunOK, Run, WriteProduct
<1>3. World'
  BY <1>2 DEF IInv, World, WriteProduct
<1>4. RunOK' /\ run'.pc = "skills"
  BY <1>1, Onward DEF IInv, WriteProduct, Ends, Phase
<1>5. Quiet'
  BY <1>4 DEF Quiet
<1>6. QED
  BY <1>3, <1>4, <1>5 DEF IInv

\* What is left of a run: the skills and the end.
LEMMA RestInv == IInv /\ (Skills \/ Copy \/ Generate \/ Validate \/ Stop) => IInv'
<1>1. ASSUME IInv, Skills PROVE IInv'
  <2>1. run \in Run /\ run.pc = "skills" /\ Running
    BY <1>1 DEF IInv, RunOK, Skills, At, Running, Ends
  <2>2. World'
    BY <1>1 DEF IInv, World, Skills
  <2>3. CASE Goto("copy") /\ pack' = "torn"
    <3>1. RunOK' /\ run'.pc = "copy"
      BY <1>1, <2>1, <2>3, Onward DEF IInv, Ends, Phase
    <3>2. QED
      BY <2>2, <2>3, <3>1 DEF IInv, Quiet
  <2>4. CASE Goto("generate")
    <3>1. RunOK' /\ run'.pc = "generate"
      BY <1>1, <2>1, <2>4, Onward DEF IInv, Ends, Phase
    <3>2. QED
      BY <2>2, <3>1 DEF IInv, Quiet
  <2>5. QED
    BY <1>1, <2>3, <2>4 DEF Skills
<1>2. ASSUME IInv, Copy PROVE IInv'
  <2>1. run \in Run /\ run.pc = "copy" /\ Running
    BY <1>2 DEF IInv, RunOK, Copy, At, Running, Ends
  <2>2. World'
    BY <1>2 DEF IInv, World, Copy
  <2>3. RunOK' /\ run'.pc = "generate"
    BY <1>2, <2>1, Onward DEF IInv, Copy, Ends, Phase
  <2>4. QED
    BY <2>2, <2>3 DEF IInv, Quiet
<1>3. ASSUME IInv, Generate PROVE IInv'
  <2>1. run \in Run /\ run.pc = "generate" /\ Running
    BY <1>3 DEF IInv, RunOK, Generate, At, Running, Ends
  <2>2. World'
    BY <1>3 DEF IInv, World, Generate
  <2>3. RunOK' /\ run'.pc = "validate"
    BY <1>3, <2>1, Onward DEF IInv, Generate, Ends, Phase
  <2>4. QED
    BY <2>2, <2>3 DEF IInv, Quiet
<1>4. ASSUME IInv, Validate PROVE IInv'
  <2>1. run \in Run /\ run.opts \in Options
    BY <1>4 DEF IInv, RunOK, Validate, At, Running, Ends
  <2>2. World'
    BY <1>4, <2>1 DEF IInv, World, Validate, project
  <2>3. End("done") \/ End("failed")
    BY <1>4 DEF Validate
  <2>4. QED
    BY <2>2, <2>3, Ended DEF End, IInv, Ends
<1>5. ASSUME IInv, Stop PROVE IInv'
  <2>1. World'
    BY <1>5 DEF IInv, World, Stop, project
  <2>2. QED
    BY <1>5, <2>1, Ended DEF Stop, End, IInv, Ends
<1>6. QED
  BY <1>1, <1>2, <1>3, <1>4, <1>5

\* Once someone else has changed something, the run holds to nothing.
LEMMA Disturbed ==
    ASSUME IInv, Disturb
    PROVE  /\ RunOK' /\ Quiet'
           /\ edits' \in 0..MaxEdits /\ last' = None /\ cloud' = cloud
<1>1. run' = [run EXCEPT !.quiet = ~Running] /\ run \in Run /\ Running \in BOOLEAN
  BY DEF Disturb, IInv, RunOK, Running
<1>2. run' \in Run /\ run'.quiet = ~Running /\ run'.pc = run.pc /\ run'.opts = run.opts
      /\ run'.url = run.url /\ run'.db = run.db
      /\ run'.envUrl = run.envUrl /\ run'.envProduct = run.envProduct
  BY <1>1 DEF Run
<1>3. RunOK'
  BY <1>2 DEF IInv, RunOK, Running
<1>4. Quiet'
  BY <1>2 DEF Quiet, Running, Ends
<1>5. edits' \in 0..MaxEdits
  BY InitAssumption DEF Disturb, IInv, World
<1>6. QED
  BY <1>3, <1>4, <1>5 DEF Disturb

LEMMA EditsInv == IInv /\ (Settle \/ EditEnv \/ EditGit \/ EditDocker \/ EditPack) => IInv'
<1>1. ASSUME IInv, Settle PROVE IInv'
  <2>1. World' /\ run' = run /\ env' = env /\ git' = git /\ pack' = pack
    BY <1>1 DEF IInv, World, Settle, project
  <2>2. RunOK'
    BY <1>1, <2>1 DEF IInv, RunOK, Running
  <2>3. Careful' <=> Careful
    BY <2>1 DEF Careful
  <2>4. Refused(run.opts, Cloud)' <=> Refused(run.opts, Cloud)
    BY <2>1, RefusedSame
  <2>5. Quiet'
    BY <1>1, <2>1, <2>3, <2>4 DEF IInv, Quiet, Harmless, Written
  <2>6. QED
    BY <2>1, <2>2, <2>5 DEF IInv
<1>2. ASSUME IInv, EditEnv PROVE IInv'
  <2>0. PICK k \in Key, v \in {Placeholder, Users} \cup {Local(p) : p \in Port} :
           \E line \in {<<>>, <<v>>, env[k] \o <<v>>} :
              Len(line) <= 2 /\ env' = [env EXCEPT ![k] = line]
    BY <1>2 DEF EditEnv
  <2>1. PICK line \in {<<>>, <<v>>, env[k] \o <<v>>} : Len(line) <= 2 /\ env' = [env EXCEPT ![k] = line]
    BY <2>0
  <2>2. v \in Value /\ v # Cloud
    BY ValueFacts
  <2>3. env[k] \in Seq(Value) /\ env[k] \in Lines
    BY <1>2, LinesFacts DEF IInv, World, Env
  <2>4. line \in Lines
    <3>1. PICK s \in Lines : s = env[k]
      BY <2>3
    <3>2. <<>> \in Lines /\ <<v>> \in Lines /\ (Len(s \o <<v>>) <= 2 => s \o <<v>> \in Lines)
      BY <2>2, LineSteps
    <3>3. QED
      BY <2>1, <3>1, <3>2
  <2>5. k # "REDIS_URL" => \A i \in DOMAIN line : line[i] # Cloud
    <3>1. SUFFICES ASSUME k # "REDIS_URL", NEW i \in DOMAIN line PROVE line[i] # Cloud
      OBVIOUS
    <3>2. CASE line = <<>> \/ line = <<v>>
      BY <2>2, <3>2
    <3>3. CASE line = env[k] \o <<v>>
      <4>1. \A j \in 1..Len(env[k]) : env[k][j] # Cloud
        BY <1>2, <2>3, <3>1, LineSteps, <2>2 DEF IInv, World, PlainEnv
      <4>2. <<v>> \in Seq(Value) /\ Len(<<v>>) = 1 /\ <<v>>[1] = v
        BY <2>2
      <4>3. line \in Seq(Value) /\ Len(line) = Len(env[k]) + 1 /\ Len(env[k]) \in Nat
            /\ \A j \in 1..(Len(env[k]) + 1) :
                  line[j] = IF j <= Len(env[k]) THEN env[k][j] ELSE <<v>>[j - Len(env[k])]
        BY <2>3, <3>3, <4>2, ConcatProperties, LenProperties
      <4>4. DOMAIN line = 1..(Len(env[k]) + 1)
        BY <4>3, LenProperties
      <4>5. i <= Len(env[k]) \/ i = Len(env[k]) + 1
        BY <4>3, <4>4
      <4>6. QED
        BY <2>2, <4>1, <4>2, <4>3, <4>4, <4>5
    <3>4. QED
      BY <3>2, <3>3
  <2>6. env' \in Env /\ PlainEnv(env')
    BY <1>2, <2>1, <2>4, <2>5 DEF IInv, World, Env, PlainEnv
  <2>7. Disturb
    BY <1>2 DEF EditEnv
  <2>8. World'
    BY <1>2, <2>6, <2>7, Disturbed DEF IInv, World, EditEnv
  <2>9. QED
    BY <1>2, <2>7, <2>8, Disturbed DEF IInv
<1>3. ASSUME IInv, EditGit PROVE IInv'
  <2>1. Disturb
    BY <1>3 DEF EditGit
  <2>2. git' \in [ignored : BOOLEAN, tracked : BOOLEAN]
    <3>1. git \in [ignored : BOOLEAN, tracked : BOOLEAN]
      BY <1>3 DEF IInv, World
    <3>2. \A b \in BOOLEAN : /\ [git EXCEPT !.ignored = b] \in [ignored : BOOLEAN, tracked : BOOLEAN]
                            /\ [git EXCEPT !.tracked = b] \in [ignored : BOOLEAN, tracked : BOOLEAN]
      BY <3>1
    <3>3. (~git.ignored) \in BOOLEAN /\ (~git.tracked) \in BOOLEAN
      OBVIOUS
    <3>4. QED
      BY <1>3, <3>2, <3>3 DEF EditGit
  <2>3. World'
    BY <1>3, <2>1, <2>2, Disturbed DEF IInv, World, EditGit
  <2>4. QED
    BY <1>3, <2>1, <2>3, Disturbed DEF IInv
<1>4. ASSUME IInv, EditDocker PROVE IInv'
  <2>1. Disturb
    BY <1>4 DEF EditDocker
  <2>2. docker' \in [up : BOOLEAN, box : {"absent", "stopped", "running"}, port : Port \cup {0},
                     taken : SUBSET Port]
        /\ (docker'.box # "absent" => docker'.port \in Port)
    <3> DEFINE D == [up : BOOLEAN, box : {"absent", "stopped", "running"}, port : Port \cup {0},
                     taken : SUBSET Port]
    <3>1. docker \in D /\ (docker.box # "absent" => docker.port \in Port)
      BY <1>4 DEF IInv, World
    <3>2. CASE docker' = [docker EXCEPT !.up = ~@, !.box = IF @ = "running" THEN "stopped" ELSE @]
      <4>1. \A b \in BOOLEAN, x \in {"absent", "stopped", "running"} :
               /\ [docker EXCEPT !.up = b, !.box = x] \in D
               /\ [docker EXCEPT !.up = b, !.box = x].box = x
               /\ [docker EXCEPT !.up = b, !.box = x].port = docker.port
        BY <3>1
      <4>2. (~docker.up) \in BOOLEAN
            /\ (IF docker.box = "running" THEN "stopped" ELSE docker.box) \in {"absent", "stopped", "running"}
        BY <3>1
      <4>3. QED
        BY <3>1, <3>2, <4>1, <4>2
    <3>3. CASE docker.box = "running" /\ docker' = [docker EXCEPT !.box = "stopped"]
      BY <3>1, <3>3
    <3>4. CASE docker.box # "absent" /\ docker' = [docker EXCEPT !.box = "absent", !.port = 0]
      BY <3>1, <3>4
    <3>5. CASE \E p \in Port : docker' = [docker EXCEPT !.taken = @ \cup {p}]
      BY <3>1, <3>5
    <3>6. CASE \E p \in docker.taken : docker' = [docker EXCEPT !.taken = @ \ {p}]
      BY <3>1, <3>6
    <3>7. QED
      BY <1>4, <3>2, <3>3, <3>4, <3>5, <3>6 DEF EditDocker
  <2>3. World'
    BY <1>4, <2>1, <2>2, Disturbed DEF IInv, World, EditDocker
  <2>4. QED
    BY <1>4, <2>1, <2>3, Disturbed DEF IInv
<1>5. ASSUME IInv, EditPack PROVE IInv'
  <2>1. Disturb
    BY <1>5 DEF EditPack
  <2>2. World'
    BY <1>5, <2>1, Disturbed DEF IInv, World, EditPack
  <2>3. QED
    BY <1>5, <2>1, <2>2, Disturbed DEF IInv
<1>6. QED
  BY <1>1, <1>2, <1>3, <1>4, <1>5

LEMMA StepInv == IInv /\ [Next]_vars => IInv'
<1> SUFFICES ASSUME IInv, [Next]_vars PROVE IInv'
  OBVIOUS
<1>1. CASE UNCHANGED vars
  <2>1. run' = run /\ env' = env /\ git' = git /\ pack' = pack
    BY <1>1 DEF vars, project
  <2>2. World'
    BY <1>1 DEF IInv, World, vars, project
  <2>3. RunOK'
    BY <2>1 DEF IInv, RunOK, Running
  <2>4. (Careful' <=> Careful) /\ (Refused(run.opts, Cloud)' <=> Refused(run.opts, Cloud))
    BY <2>1, RefusedSame DEF Careful
  <2>5. Quiet'
    BY <2>1, <2>4 DEF IInv, Quiet, Harmless, Written
  <2>6. QED
    BY <2>2, <2>3, <2>5 DEF IInv
<1>2. CASE Next
  BY <1>2, StartInv, PreflightInv, ResolveInv, AwaitInv, PlanInv, DatabaseInv, IgnoreInv, WriteUrlInv,
     WriteProductInv, RestInv, EditsInv DEF Next, Apply
<1>3. QED
  BY <1>1, <1>2

-----------------------------------------------------------------------------
(* The theorems.                                                           *)

LEMMA Invariant == Spec => []IInv
<1>1. Init => IInv
  BY InitInv
<1>2. IInv /\ [Next]_vars => IInv'
  BY StepInv
<1>3. QED
  BY <1>1, <1>2, PTL DEF Spec

\* Runs of init and edits keep the project, its surroundings and the run itself well-typed: a plan
\* always has a URL for the container that it starts, and whatever is written is a dotenv file.
THEOREM TypeCorrect == Spec => []TypeOK
<1>1. IInv => TypeOK
  BY Typed
<1>2. QED
  BY <1>1, Invariant, PTL

\* Redis Cloud is never asked for a database in vain: once the account was asked, no run is refused
\* for what the project looks like, unless someone changed the project meanwhile.
THEOREM NotInVain == Spec => NeverInVain
<1> DEFINE Good == At("plan") /\ run.url = Cloud /\ run'.pc = "refused" => ~run.quiet
<1>1. IInv /\ [Next]_vars => [Good]_vars
  <2> SUFFICES ASSUME IInv, Next, At("plan"), run.url = Cloud, run'.pc = "refused", run.quiet
               PROVE  FALSE
    BY DEF Good
  <2>1. run \in Run /\ run.pc = "plan" /\ run.opts \in Options /\ UrlOf(run.opts) = Cloud
    BY DEF IInv, RunOK, At, Running, Ends
  <2>2. run.opts.database = "cloud"
    BY <2>1, ValueFacts DEF UrlOf
  <2>3. ~Refused(run.opts, Cloud)
    BY <2>1, <2>2 DEF IInv, Quiet
  <2>4. CASE Plan
    <3>1. run'.pc = "database"
      BY <2>1, <2>3, <2>4 DEF Plan, Run
    <3>2. QED
      BY <3>1
  <2>5. CASE Stop
    BY <2>5 DEF Stop, End, Idle
  <2>6. CASE Settle
    BY <2>1, <2>6 DEF Settle
  <2>7. CASE EditEnv \/ EditGit \/ EditDocker \/ EditPack
    <3>1. run'.pc = run.pc
      BY <2>1, <2>7 DEF EditEnv, EditGit, EditDocker, EditPack, Disturb, Run
    <3>2. QED
      BY <2>1, <3>1
  <2>8. QED
    BY <2>1, <2>4, <2>5, <2>6, <2>7
       DEF Next, Apply, Start, Running, Ends, Preflight, Resolve, Await, ApplyDatabase, Ignore, WriteUrl,
           WriteProduct, Skills, Copy, Generate, Validate, At
<1>2. QED
  BY <1>1, Invariant, PTL DEF Spec, NeverInVain

\* The steps of a run that write .env, and what they write.
LEMMA Writes ==
    ASSUME IInv, Next, ByRun, run.quiet, env' # env
    PROVE  Harmless(env, env') /\ ~(run.pc \in {"database", "ignore"}) /\ pack' = pack
<1>1. ~(EditEnv \/ EditGit \/ EditDocker \/ EditPack)
  <2>1. edits \in Nat
    BY InitAssumption DEF IInv, World
  <2>2. ~Disturb
    BY <2>1 DEF ByRun, Disturb
  <2>3. QED
    BY <2>2 DEF EditEnv, EditGit, EditDocker, EditPack
<1>2. WriteUrl \/ WriteProduct
  BY <1>1 DEF Next, Apply, Start, Preflight, Resolve, Await, Plan, ApplyDatabase, Ignore, Skills, Copy,
              Generate, Validate, Stop, Settle, project
<1>3. CASE WriteUrl
  BY <1>3 DEF WriteUrl, At, IInv, Quiet, Written
<1>4. CASE WriteProduct
  BY <1>4 DEF WriteProduct, At, IInv, Quiet, Written
<1>5. QED
  BY <1>2, <1>3, <1>4

\* Whatever run follows whatever failed or killed run: a secret that .env did not hold is written
\* only once .gitignore covers it, and never into a .env that git tracks.
THEOREM SecretsStayOut == Spec => SecretsIgnored
<1> DEFINE Good == ByRun /\ run.quiet =>
                     \A k \in Key : \A i \in DOMAIN env'[k] :
                        Secret(k, env'[k][i]) /\ (\A l \in Key : ~Holds(env, l, env'[k][i])) =>
                           git.ignored /\ ~git.tracked
<1>1. IInv /\ [Next]_vars => [Good]_vars
  <2> SUFFICES ASSUME IInv, Next, ByRun, run.quiet,
                      NEW k \in Key, NEW i \in DOMAIN env'[k],
                      Secret(k, env'[k][i]), \A l \in Key : ~Holds(env, l, env'[k][i])
               PROVE  git.ignored /\ ~git.tracked
    BY DEF Good
  <2>1. Adds(env, env')
    BY DEF Adds
  <2>2. env' # env
    BY <2>1, KeepsSelf
  <2>3. QED
    BY <2>1, <2>2, Writes DEF Harmless, Careful
<1>2. QED
  BY <1>1, Invariant, PTL DEF Spec, SecretsIgnored

\* No run, however often it is repeated with other choices, changes a configured value that the
\* user's programs load, but for the REDIS_URL that the choice replaces; nor a skill of the user's own.
THEOREM ValuesStay == Spec => UserValuesKept
<1> DEFINE Good == ByRun /\ run.quiet =>
          /\ \A k \in Key :
                Loaded(env, k) # None /\ Configured(Loaded(env, k)) /\ Loaded(env', k) # Loaded(env, k)
                    => k = "REDIS_URL" /\ run.opts.database \in {"docker", "url", "cloud"}
          /\ pack = "users" => pack' = "users"
<1>1. IInv /\ [Next]_vars => [Good]_vars
  <2> SUFFICES ASSUME IInv, Next, ByRun, run.quiet PROVE Good
    OBVIOUS
  <2>1. CASE env' # env
    BY <2>1, Writes DEF Harmless, Keeps, Replaces
  <2>2. CASE env' = env
    <3>1. ~EditPack
      BY InitAssumption DEF IInv, World, ByRun, Disturb, EditPack
    <3>2. pack = "users" => pack' = "users"
      BY <2>2, <3>1 DEF IInv, Quiet, Next, Apply, Start, Preflight, Resolve, Await, Plan, ApplyDatabase, Ignore,
           WriteUrl, WriteProduct, Skills, Copy, Generate, Validate, Stop, Settle, EditEnv, EditGit,
           EditDocker, project, At
    <3>3. QED
      BY <2>2, <3>2
  <2>3. QED
    BY <2>1, <2>2
<1>2. QED
  BY <1>1, Invariant, PTL DEF Spec, UserValuesKept

-----------------------------------------------------------------------------
(* A success is about what will be loaded.  The second invariant follows    *)
(* the database and the product from the plan to the end of the run.        *)

Agrees(e) ==
    /\ run.db.action # "none" => Loaded(e, "REDIS_URL") = run.db.url
    /\ run.endpoint # None => Loaded(e, "ENDPOINT") = run.endpoint /\ Loaded(e, "API_KEY") = run.key

\* The URL is that of this project's container.
Contained(url) == docker.box # "absent" /\ url = Local(docker.port)

Written2 == {"skills", "copy", "generate", "validate"}
Started == {"ignore", "writeUrl", "writeProduct"} \cup Written2

Told ==
    /\ run.db.action # "none" =>
          /\ skill.db = "container" => run.db.ours
          /\ skill.db = "cloud" => run.opts.database = "cloud"
    /\ run.endpoint # None => skill.product

AInv ==
    /\ run.pc \in {"database"} \cup Started /\ run.opts.database = "cloud" => run.db.url = Cloud
    /\ run.quiet =>
          /\ run.pc = "plan" /\ run.opts.database = "later" =>
                First(env, "REDIS_URL") \in {None, Placeholder}
          /\ run.pc \in {"database", "ignore", "writeUrl"} =>
                Agrees(Written(Written(env, run.envUrl), run.envProduct))
          /\ run.pc = "writeProduct" => Agrees(Written(env, run.envProduct))
          /\ run.pc \in Written2 => Agrees(env)
          /\ run.pc = "database" /\ run.db.ours =>
                \/ run.db.action \in {"start", "down", "new"}
                \/ run.db.action \in {"existing", "running"} /\ Contained(run.db.url)
          /\ run.pc \in Started /\ run.db.ours => Contained(run.db.url)
          /\ run.pc = "validate" => Told

\* Which URL and container a plan is about.
LEMMA PlannedUrl ==
    ASSUME World, NEW o \in Options,
           o.database = "later" => First(env, "REDIS_URL") \in {None, Placeholder}
    PROVE  LET db == PlannedDatabase(o, UrlOf(o))
           IN  /\ o.database = "cloud" => db.url = Cloud
               /\ db.ours => \/ db.action \in {"start", "down", "new"}
                             \/ db.action \in {"existing", "running"} /\ Contained(db.url)
                             \/ db.action = "noPort"
               /\ ~Replaces(o) /\ db.action \notin {"none", "noPort"} /\ First(env, "REDIS_URL") # None =>
                     db.url = First(env, "REDIS_URL")
<1> DEFINE u == UrlOf(o)
           db == PlannedDatabase(o, u)
           stored == First(env, "REDIS_URL")
<1>1. CASE u # None
  <2>1. db = [action |-> "provided", url |-> u, ours |-> FALSE]
    BY <1>1 DEF PlannedDatabase
  <2>2. o.database = "cloud" => u = Cloud
    BY DEF UrlOf
  <2>3. Replaces(o)
    BY <1>1 DEF UrlOf, Replaces
  <2>4. QED
    BY <2>1, <2>2, <2>3
<1>2. CASE u = None
  <2>1. o.database # "cloud"
    BY <1>2, ValueFacts DEF UrlOf
  <2>2. CASE o.database = "later"
    <3>1. db = [action |-> "placeholder", url |-> Placeholder, ours |-> FALSE]
      BY <1>2, <2>2 DEF PlannedDatabase
    <3>2. QED
      BY <2>1, <2>2, <3>1
  <2>3. CASE o.database # "later" /\ ~WantsDatabase(o)
    <3>1. db = NoDatabase
      BY <1>2, <2>3 DEF PlannedDatabase
    <3>2. QED
      BY <2>1, <3>1 DEF NoDatabase
  <2>4. CASE o.database # "later" /\ WantsDatabase(o)
    <3>1. db = LocalDatabase(Replaces(o))
      BY <1>2, <2>4 DEF PlannedDatabase
    <3>2. CASE stored # None /\ ~Replaces(o)
      <4>1. db = IF stored = Placeholder
                 THEN [action |-> "placeholder", url |-> stored, ours |-> FALSE] ELSE ExistingEnv(stored)
        BY <3>1, <3>2 DEF LocalDatabase
      <4>2. /\ ExistingEnv(stored).url = stored
            /\ ExistingEnv(stored).action \in {"start", "existing"}
            /\ ExistingEnv(stored).ours => Contained(stored)
        BY DEF ExistingEnv, Contained
      <4>3. QED
        BY <2>1, <4>1, <4>2
    <3>3. CASE ~(stored # None /\ ~Replaces(o))
      <4>1. \/ db.action \in {"down", "new", "noPort"}
            \/ db.action \in {"running", "start"} /\ Contained(db.url)
        BY <3>1, <3>3 DEF LocalDatabase, Contained
      <4>2. QED
        BY <2>1, <3>3, <4>1
    <3>4. QED
      BY <3>2, <3>3
  <2>5. QED
    BY <2>2, <2>3, <2>4
<1>3. QED
  BY <1>1, <1>2

LEMMA ReplaceLoads ==
    ASSUME NEW e \in Env, NEW k \in Key, Len(e[k]) <= 1, NEW v \in Value
    PROVE  Loaded(Replace(e, k, v), k) = v
<1>1. PICK g \in Env : g = Replace(e, k, v)
  BY ReplaceFacts
<1>2. 1 \in DOMAIN g[k] /\ g[k][1] = v /\ \A i \in DOMAIN g[k] : i = 1
  BY <1>1, ReplaceFacts
<1>3. DOMAIN g[k] = 1..Len(g[k]) /\ Len(g[k]) \in 0..2
  BY ReadFacts
<1>4. Len(g[k]) = 1
  BY <1>2, <1>3
<1>5. Loaded(g, k) = v
  BY <1>2, <1>4, ReadFacts DEF Loaded
<1>6. QED
  BY <1>1, <1>5

\* After the fill, a loader finds what the plan preferred.
LEMMA FillLoads ==
    ASSUME NEW e \in Env, NEW k \in Key, Len(e[k]) <= 1, NEW v \in Value,
           First(e, k) \in {None, Placeholder} \/ v = First(e, k)
    PROVE  Loaded(Fill(e, k, v), k) = v
<1>1. CASE e[k] = <<>>
  <2>1. Fill(e, k, v)[k] = <<v>>
    BY <1>1, SetFacts DEF Fill
  <2>2. QED
    BY <2>1 DEF Loaded
<1>2. CASE e[k] # <<>>
  <2>1. Loaded(e, k) = First(e, k) /\ First(e, k) = Head(e[k])
    BY <1>2, ReadFacts DEF First
  <2>2. CASE v = First(e, k)
    <3>1. Fill(e, k, v) = e
      BY <1>2, <2>1, <2>2, SetFacts DEF Fill
    <3>2. QED
      BY <2>1, <2>2, <3>1
  <2>3. CASE v # First(e, k)
    <3>1. Fill(e, k, v) = Replace(e, k, v)
      BY <1>2, <2>1, <2>3, ReadFacts DEF Fill, Configured
    <3>2. QED
      BY <3>1, ReplaceLoads
  <2>4. QED
    BY <2>2, <2>3
<1>3. QED
  BY <1>1, <1>2

\* What a plan writes is what it is about.
LEMMA PlanAgrees ==
    ASSUME World, ~Duplicate, NEW o \in Options,
           o.database = "later" => First(env, "REDIS_URL") \in {None, Placeholder},
           NEW db, db = PlannedDatabase(o, UrlOf(o)), db.action # "noPort"
    PROVE  LET p == EnvWithProduct(o, db)
           IN  /\ db.action # "none" => Loaded(p, "REDIS_URL") = db.url
               /\ Wired(o) => /\ Loaded(p, "ENDPOINT") = PlannedEndpoint(o)
                              /\ Loaded(p, "API_KEY") = PlannedKey(o)
<1> DEFINE w == EnvWithUrl(o, db)
           p == EnvWithProduct(o, db)
<1>1. db \in Database /\ (db.action # "none" => db.url \in Value)
  BY DatabaseFacts, OptionFacts
<1>2. /\ w \in Env /\ p \in Env /\ \A k \in Key : k # "REDIS_URL" => w[k] = env[k]
      /\ p["REDIS_URL"] = w["REDIS_URL"]
  BY <1>1, ContentFacts
<1>3. env \in Env /\ \A k \in Key : Len(env[k]) <= 1
  BY ReadFacts DEF World, Duplicate
<1>4. ASSUME db.action # "none" PROVE Loaded(w, "REDIS_URL") = db.url
  <2>1. db.url \in Value
    BY <1>1, <1>4
  <2>2. CASE Replaces(o)
    <3>1. w = Replace(env, "REDIS_URL", db.url)
      BY <1>4, <2>2 DEF EnvWithUrl
    <3>2. QED
      BY <1>3, <2>1, <3>1, ReplaceLoads, KeyFacts
  <2>3. CASE ~Replaces(o)
    <3>1. w = SetAbsent(env, "REDIS_URL", db.url)
      BY <1>4, <2>3 DEF EnvWithUrl
    <3>2. CASE env["REDIS_URL"] = <<>>
      <4>1. w["REDIS_URL"] = <<db.url>>
        BY <1>3, <2>1, <3>1, <3>2, SetFacts, KeyFacts
      <4>2. QED
        BY <4>1 DEF Loaded
    <3>3. CASE env["REDIS_URL"] # <<>>
      <4>1. w = env
        BY <1>3, <2>1, <3>1, <3>3, SetFacts, KeyFacts
      <4>2. First(env, "REDIS_URL") # None /\ Loaded(env, "REDIS_URL") = First(env, "REDIS_URL")
        BY <1>3, <3>3, ReadFacts, KeyFacts
      <4>3. db.url = First(env, "REDIS_URL")
        BY <1>4, <2>3, <4>2, PlannedUrl
      <4>4. QED
        BY <4>1, <4>2, <4>3
    <3>4. QED
      BY <3>2, <3>3
  <2>4. QED
    BY <2>2, <2>3
<1>5. db.action # "none" => Loaded(p, "REDIS_URL") = db.url
  BY <1>2, <1>4 DEF Loaded
<1>6. ASSUME Wired(o)
      PROVE  Loaded(p, "ENDPOINT") = PlannedEndpoint(o) /\ Loaded(p, "API_KEY") = PlannedKey(o)
  <2>1. PICK e \in Value, k \in Value : e = PlannedEndpoint(o) /\ k = PlannedKey(o)
    BY <1>6, ProductFacts
  <2>2. First(env, "ENDPOINT") \in {None, Placeholder} \/ e = First(env, "ENDPOINT")
    BY <2>1 DEF PlannedEndpoint, Prefer
  <2>3. First(env, "API_KEY") \in {None, Placeholder} \/ k = First(env, "API_KEY")
    BY <2>1 DEF PlannedKey, Prefer
  <2>4. PICK f \in Env : f = Fill(w, "ENDPOINT", e)
    BY <1>2, FillFacts, KeyFacts
  <2>5. First(w, "ENDPOINT") = First(env, "ENDPOINT") /\ Len(w["ENDPOINT"]) <= 1
    BY <1>2, <1>3, KeyFacts DEF First
  <2>6. Loaded(f, "ENDPOINT") = e
    BY <1>2, <2>2, <2>4, <2>5, FillLoads, KeyFacts
  <2>7. \A j \in Key : j # "ENDPOINT" => f[j] = w[j]
    <3>1. PICK x \in Env : x = w
      BY <1>2
    <3> HIDE DEF w
    <3>2. f = Fill(x, "ENDPOINT", e)
      BY <2>4, <3>1
    <3>3. \A j \in Key : j # "ENDPOINT" => Fill(x, "ENDPOINT", e)[j] = x[j]
      BY FillFacts, KeyFacts
    <3>4. QED
      BY <3>1, <3>2, <3>3
  <2>8. First(f, "API_KEY") = First(env, "API_KEY") /\ Len(f["API_KEY"]) <= 1
    BY <1>2, <1>3, <2>7, KeyFacts DEF First
  <2>9. p = Fill(f, "API_KEY", k)
    BY <1>6, <2>1, <2>4 DEF EnvWithProduct
  <2>10. Loaded(Fill(f, "API_KEY", k), "API_KEY") = k
    BY <2>3, <2>8, FillLoads, KeyFacts
  <2>11. Fill(f, "API_KEY", k)["ENDPOINT"] = f["ENDPOINT"]
    BY FillFacts, KeyFacts
  <2>12. QED
    BY <2>1, <2>6, <2>9, <2>10, <2>11 DEF Loaded
<1>7. QED
  BY <1>5, <1>6

LEMMA EndedAgrees ==
    ASSUME NEW x \in Ends, run' = Idle(x)
    PROVE  AInv'
<1>1. run'.pc = x
  BY DEF Idle
<1>2. run'.pc \notin {"plan", "database"} \cup Started
  BY <1>1 DEF Ends, Started, Written2
<1>3. QED
  BY <1>2 DEF AInv, Started, Written2

\* A run moves on and keeps its plan.
LEMMA KeepsPlan ==
    ASSUME RunOK, NEW pc \in Phase, Goto(pc)
    PROVE  /\ run'.pc = pc /\ run'.opts = run.opts /\ run'.db = run.db /\ run'.quiet = run.quiet
           /\ run'.envUrl = run.envUrl /\ run'.envProduct = run.envProduct
           /\ run'.endpoint = run.endpoint /\ run'.key = run.key
           /\ run'.recorded = run.recorded /\ run'.ignore = run.ignore
  BY DEF RunOK, Goto, Run

LEMMA PlanningAgrees ==
    IInv /\ AInv /\ (Start \/ Preflight \/ Resolve \/ Await) => AInv'
<1>1. ASSUME IInv, Start PROVE AInv'
  <2>1. PICK o \in Options :
          /\ o.database = "later" => First(env, "REDIS_URL") \in {None, Placeholder}
          /\ run' = [Idle("none") EXCEPT
                        !.pc = IF o.database = "cloud" THEN "preflight" ELSE "plan",
                        !.opts = o,
                        !.url = IF o.database = "url" THEN Flag ELSE None]
    BY <1>1 DEF Start
  <2>2. run'.pc \in {"preflight", "plan"} /\ run'.opts = o
    BY <2>1 DEF Idle
  <2>3. First(env, "REDIS_URL")' = First(env, "REDIS_URL")
    BY <1>1 DEF Start, project, First
  <2>4. QED
    BY <2>1, <2>2, <2>3 DEF AInv, Started, Written2
<1>2. ASSUME IInv, Preflight PROVE AInv'
  <2>1. CASE End("refused")
    BY <2>1, EndedAgrees DEF End, Ends
  <2>2. CASE Goto("resolve")
    <3>1. run'.pc = "resolve"
      BY <1>2, <2>2, KeepsPlan DEF IInv, Phase
    <3>2. QED
      BY <3>1 DEF AInv, Started, Written2
  <2>3. QED
    BY <1>2, <2>1, <2>2 DEF Preflight
<1>3. ASSUME IInv, Resolve PROVE AInv'
  <2>1. CASE End("failed")
    BY <2>1, EndedAgrees DEF End, Ends
  <2>2. CASE Goto("await")
    <3>1. run'.pc = "await"
      BY <1>3, <2>2, KeepsPlan DEF IInv, Phase
    <3>2. QED
      BY <3>1 DEF AInv, Started, Written2
  <2>3. QED
    BY <1>3, <2>1, <2>2 DEF Resolve
<1>4. ASSUME IInv, Await PROVE AInv'
  <2>1. CASE End("failed")
    BY <2>1, EndedAgrees DEF End, Ends
  <2>2. CASE run' = [run EXCEPT !.pc = "plan", !.url = Cloud]
    <3>1. run'.pc = "plan" /\ run'.opts.database = "cloud"
      BY <1>4, <2>2 DEF IInv, RunOK, Run, Await, At
    <3>2. QED
      BY <3>1 DEF AInv, Started, Written2
  <2>3. QED
    BY <1>4, <2>1, <2>2 DEF Await
<1>5. QED
  BY <1>1, <1>2, <1>3, <1>4

LEMMA PlanStepAgrees == IInv /\ AInv /\ Plan => AInv'
<1> SUFFICES ASSUME IInv, AInv, Plan PROVE AInv'
  OBVIOUS
<1> DEFINE o == run.opts
           db == PlannedDatabase(o, run.url)
           w == EnvWithUrl(o, db)
           p == EnvWithProduct(o, db)
<1>1. World /\ env' = env /\ docker' = docker
  BY DEF IInv, World, Plan, project
<1>2. run \in Run /\ run.pc = "plan" /\ o \in Options /\ run.url = UrlOf(o)
  BY DEF IInv, RunOK, Plan, At, Running, Ends
<1>3. CASE Refused(o, run.url)
  BY <1>3, EndedAgrees DEF Plan, End, Ends
<1>4. CASE ~Refused(o, run.url)
  <2>1. ~Duplicate /\ db.action # "noPort"
    BY <1>4 DEF Refused
  <2>2. db \in Database /\ (db.action # "none" => db.url \in Value)
    BY <1>1, <1>2, <2>1, DatabaseFacts, OptionFacts
  <2>3. w \in Env /\ p \in Env
    BY <1>1, <1>2, <2>1, <2>2, ContentFacts
  <2>4. run' = [run EXCEPT
              !.pc = "database", !.db = db,
              !.ignore = ~git.ignored /\ (db.action # "none" \/ Wired(o)),
              !.envUrl = IF w = env THEN None ELSE w,
              !.envProduct = IF p = w THEN None ELSE p,
              !.endpoint = IF Wired(o) THEN PlannedEndpoint(o) ELSE None,
              !.key = IF Wired(o) THEN PlannedKey(o) ELSE None,
              !.recorded = First(env, "ENDPOINT") # None]
    BY <1>4 DEF Plan
  <2> HIDE DEF db, w, p, o
  <2>5. /\ run'.pc = "database" /\ run'.db = db /\ run'.opts = o /\ run'.quiet = run.quiet
        /\ run'.envUrl = IF w = env THEN None ELSE w
        /\ run'.envProduct = IF p = w THEN None ELSE p
        /\ run'.endpoint = IF Wired(o) THEN PlannedEndpoint(o) ELSE None
        /\ run'.key = IF Wired(o) THEN PlannedKey(o) ELSE None
    BY <1>2, <2>4 DEF Run, o
  <2>6. Written(Written(env', run'.envUrl), run'.envProduct) = p
    BY <1>1, <2>3, <2>5, NoneAssumption DEF Written
  <2>7. db = PlannedDatabase(o, UrlOf(o)) /\ UrlOf(o) \in Value \cup {None}
    BY <1>2, OptionFacts DEF db
  <2>8. o.database = "cloud" => db.url = Cloud
    <3>1. o.database = "cloud" => UrlOf(o) = Cloud /\ Cloud # None
      BY ValueFacts DEF UrlOf
    <3>2. QED
      BY <2>7, <3>1 DEF PlannedDatabase
  <2>9. ASSUME run.quiet
        PROVE  /\ Agrees(Written(Written(env, run.envUrl), run.envProduct))'
               /\ db.ours => \/ db.action \in {"start", "down", "new"}
                             \/ db.action \in {"existing", "running"} /\ Contained(db.url)
    <3>1. o.database = "later" => First(env, "REDIS_URL") \in {None, Placeholder}
      BY <1>2, <2>9 DEF AInv, o
    <3>2. /\ db.action # "none" => Loaded(p, "REDIS_URL") = db.url
          /\ Wired(o) => /\ Loaded(p, "ENDPOINT") = PlannedEndpoint(o)
                         /\ Loaded(p, "API_KEY") = PlannedKey(o)
      BY <1>1, <1>2, <2>1, <2>7, <3>1, PlanAgrees DEF w, p
    <3>3. Agrees(Written(Written(env, run.envUrl), run.envProduct))'
      BY <2>5, <2>6, <3>2 DEF Agrees, Loaded
    <3>4. QED
      BY <1>1, <1>2, <2>1, <2>7, <3>1, <3>3, PlannedUrl
  <2>10. db.ours /\ Contained(db.url) => Contained(run.db.url)'
    BY <1>1, <2>5 DEF Contained
  <2>11. QED
    BY <2>5, <2>8, <2>9, <2>10 DEF AInv, Started, Written2
<1>5. QED
  BY <1>3, <1>4

LEMMA DatabaseAgrees == IInv /\ AInv /\ ApplyDatabase => AInv'
<1> SUFFICES ASSUME IInv, AInv, ApplyDatabase PROVE AInv'
  OBVIOUS
<1>1. CASE End("failed")
  BY <1>1, EndedAgrees DEF End, Ends
<1>2. CASE Goto("ignore") /\ ~End("failed")
  <2>1. /\ run'.pc = "ignore" /\ run'.opts = run.opts /\ run'.db = run.db /\ run'.quiet = run.quiet
        /\ run'.envUrl = run.envUrl /\ run'.envProduct = run.envProduct
        /\ run'.endpoint = run.endpoint /\ run'.key = run.key /\ env' = env /\ run.pc = "database"
    BY <1>2, KeepsPlan DEF IInv, Phase, ApplyDatabase, project, At
  <2>2. ASSUME run.quiet, run.db.ours PROVE Contained(run.db.url)'
    <3>1. \/ run.db.action \in {"start", "down", "new"}
          \/ run.db.action \in {"existing", "running"} /\ Contained(run.db.url)
      BY <2>1, <2>2 DEF AInv
    <3>2. CASE run.db.action \in {"existing", "running"}
      <4>1. docker' = docker
        BY <1>2, <3>2 DEF ApplyDatabase
      <4>2. QED
        BY <2>1, <3>1, <3>2, <4>1 DEF Contained
    <3>3. CASE run.db.action \in {"start", "down", "new"}
      <4>1. docker' = [docker EXCEPT !.box = "running", !.port = run.db.url.port]
            /\ run.db.action \in {"start", "new"}
        BY <1>2, <3>3 DEF ApplyDatabase
      <4>2. PICK q \in Port : run.db.url = Local(q)
        BY <2>1, <4>1 DEF IInv, RunOK
      <4>3. docker'.box = "running" /\ docker'.port = q
        BY <4>1, <4>2, ValueFacts DEF IInv, World
      <4>4. QED
        BY <2>1, <4>2, <4>3 DEF Contained
    <3>4. QED
      BY <3>1, <3>2, <3>3
  <2>3. Agrees(Written(Written(env, run.envUrl), run.envProduct))'
           <=> Agrees(Written(Written(env, run.envUrl), run.envProduct))
    BY <2>1 DEF Agrees, Written, Loaded
  <2>4. QED
    BY <2>1, <2>2, <2>3 DEF AInv, Started, Written2
<1>3. QED
  BY <1>1, <1>2 DEF ApplyDatabase

\* From there on the run only writes what is planned.
LEMMA WritingAgrees ==
    IInv /\ AInv /\ (Ignore \/ WriteUrl \/ WriteProduct \/ Skills \/ Copy \/ Generate) => AInv'
<1> SUFFICES ASSUME IInv, AInv, Ignore \/ WriteUrl \/ WriteProduct \/ Skills \/ Copy \/ Generate
             PROVE  AInv'
  OBVIOUS
<1>1. PICK pc \in Started \ {"ignore"} : Goto(pc) /\ docker' = docker
  BY DEF Ignore, WriteUrl, WriteProduct, Skills, Copy, Generate, Started, Written2
<1>2. /\ run'.pc = pc /\ run'.opts = run.opts /\ run'.db = run.db /\ run'.quiet = run.quiet
      /\ run'.envUrl = run.envUrl /\ run'.envProduct = run.envProduct
      /\ run'.endpoint = run.endpoint /\ run'.key = run.key
  BY <1>1, KeepsPlan DEF IInv, Phase, Started, Written2
<1>3. run.pc \in Started
  BY DEF Ignore, WriteUrl, WriteProduct, Skills, Copy, Generate, Started, Written2, At
<1>4. Contained(run.db.url)' <=> Contained(run.db.url)
  BY <1>1, <1>2 DEF Contained
<1>5. Agrees(env)' <=> Agrees(env')
  BY <1>2 DEF Agrees, Loaded
<1>6. CASE Ignore
  <2>1. pc = "writeUrl" /\ env' = env /\ run.pc = "ignore"
    BY <1>2, <1>6, KeepsPlan DEF Ignore, At, IInv, Phase
  <2>2. Agrees(Written(Written(env, run.envUrl), run.envProduct))'
           <=> Agrees(Written(Written(env, run.envUrl), run.envProduct))
    BY <1>2, <2>1 DEF Agrees, Written, Loaded
  <2>3. QED
    BY <1>2, <1>3, <1>4, <2>1, <2>2 DEF AInv, Started, Written2
<1>7. CASE WriteUrl
  <2>1. pc = "writeProduct" /\ env' = Written(env, run.envUrl) /\ run.pc = "writeUrl"
    BY <1>2, <1>7, KeepsPlan DEF WriteUrl, Written, At, IInv, Phase
  <2>2. Agrees(Written(env, run.envProduct))'
           <=> Agrees(Written(Written(env, run.envUrl), run.envProduct))
    BY <1>2, <2>1 DEF Agrees, Written, Loaded
  <2>3. QED
    BY <1>2, <1>3, <1>4, <2>1, <2>2 DEF AInv, Started, Written2
<1>8. CASE WriteProduct
  <2>1. pc = "skills" /\ env' = Written(env, run.envProduct) /\ run.pc = "writeProduct"
    BY <1>2, <1>8, KeepsPlan DEF WriteProduct, Written, At, IInv, Phase
  <2>2. QED
    BY <1>2, <1>3, <1>4, <1>5, <2>1 DEF AInv, Started, Written2
<1>9. CASE Skills \/ Copy
  <2>1. pc \in {"copy", "generate"} /\ env' = env /\ run.pc \in {"skills", "copy"}
    BY <1>2, <1>9, KeepsPlan DEF Skills, Copy, At, IInv, Phase
  <2>2. QED
    BY <1>2, <1>3, <1>4, <1>5, <2>1 DEF AInv, Started, Written2
<1>10. CASE Generate
  <2>1. pc = "validate" /\ env' = env /\ run.pc = "generate"
    BY <1>2, <1>10, KeepsPlan DEF Generate, At, IInv, Phase
  <2>2. Told'
    BY <1>2, <1>10 DEF Generate, Told
  <2>3. QED
    BY <1>2, <1>3, <1>4, <1>5, <2>1, <2>2 DEF AInv, Started, Written2
<1>11. QED
  BY <1>6, <1>7, <1>8, <1>9, <1>10

LEMMA StepAgrees == IInv /\ AInv /\ [Next]_vars => AInv'
<1> SUFFICES ASSUME IInv, AInv, [Next]_vars PROVE AInv'
  OBVIOUS
<1>1. CASE Settle \/ UNCHANGED vars
  <2>1. run' = run /\ env' = env /\ docker' = docker /\ skill' = skill
    BY <1>1 DEF Settle, vars, project
  <2>2. /\ Contained(run.db.url)' <=> Contained(run.db.url)
        /\ Told' <=> Told
        /\ First(env, "REDIS_URL")' = First(env, "REDIS_URL")
    BY <2>1 DEF Contained, Told, First
  <2>3. /\ Agrees(Written(Written(env, run.envUrl), run.envProduct))'
              <=> Agrees(Written(Written(env, run.envUrl), run.envProduct))
        /\ Agrees(Written(env, run.envProduct))' <=> Agrees(Written(env, run.envProduct))
        /\ Agrees(env)' <=> Agrees(env)
    BY <2>1 DEF Agrees, Written, Loaded
  <2>4. QED
    BY <2>1, <2>2, <2>3 DEF AInv
<1>2. CASE EditEnv \/ EditGit \/ EditDocker \/ EditPack
  <2>1. run' = [run EXCEPT !.quiet = ~Running] /\ run \in Run
    BY <1>2 DEF EditEnv, EditGit, EditDocker, EditPack, Disturb, IInv, RunOK
  <2>2. run'.pc = run.pc /\ run'.opts = run.opts /\ run'.db = run.db /\ run'.quiet = ~Running
    BY <2>1 DEF Run
  <2>3. ~Running => run'.pc \notin {"plan", "database"} \cup Started
    BY <2>2 DEF Running, Ends, Started, Written2
  <2>4. QED
    BY <2>2, <2>3 DEF AInv, Started, Written2
<1>3. CASE Validate \/ Stop
  <2>1. End("done") \/ End("failed")
    BY <1>3 DEF Validate, Stop
  <2>2. QED
    BY <2>1, EndedAgrees DEF End, Ends
<1>4. QED
  BY <1>1, <1>2, <1>3, PlanningAgrees, PlanStepAgrees, DatabaseAgrees, WritingAgrees DEF Next, Apply

\* A success is about what the user's programs will load: the URL and the product that were validated
\* are those of .env, and the skill names the container, or Redis Cloud, only for a URL of its own.
THEOREM SuccessAgrees == Spec => ConnectionAgrees
<1> DEFINE Good == run.quiet /\ At("validate") /\ run'.pc = "done" =>
          /\ run.db.action # "none" =>
                /\ Loaded(env, "REDIS_URL") = run.db.url
                /\ skill.db = "container" =>
                      docker.box # "absent" /\ run.db.url = Local(docker.port)
                /\ skill.db = "cloud" => run.db.url = Cloud
          /\ run.endpoint # None =>
                /\ Loaded(env, "ENDPOINT") = run.endpoint /\ Loaded(env, "API_KEY") = run.key
                /\ skill.product
           Both == IInv /\ AInv
<1>1. Init => Both
  <2>1. Init => AInv
    BY DEF Init, Idle, AInv, Started, Written2
  <2>2. QED
    BY <2>1, InitInv
<1>2. Both /\ [Next]_vars => Both'
  BY StepInv, StepAgrees
<1>3. Both => Good
  BY DEF AInv, At, Agrees, Told, Contained, Started, Written2
<1>4. Both /\ [Next]_vars => [Good]_vars
  BY <1>3
<1>5. QED
  BY <1>1, <1>2, <1>4, PTL DEF Spec, ConnectionAgrees

-----------------------------------------------------------------------------
(* A re-run changes nothing.  Fixed is what a success leaves behind, and    *)
(* what makes the plan of the same options an empty one.                    *)

\* Do these options plan a database, a product, over this .env?
HasDatabase(o, e) ==
    \/ o.database \in {"url", "cloud", "later", "docker"}
    \/ o.database = "auto" /\ ~o.product
    \/ o.database = "complete" /\ First(e, "REDIS_URL") # None
HasProduct(o, e) == o.product \/ (o.database = "complete" /\ First(e, "ENDPOINT") # None)

\* What the skill says of the database at this URL.
Says(o, url) ==
    IF UrlOf(o) = None /\ url.kind = "local" THEN "container"
    ELSE IF o.database = "cloud" THEN "cloud" ELSE "external"

Fixed(o) ==
    LET url == Loaded(env, "REDIS_URL")
        endpoint == Loaded(env, "ENDPOINT")
        key == Loaded(env, "API_KEY")
    IN  /\ git.ignored \/ ~(HasDatabase(o, env) \/ HasProduct(o, env))
        /\ HasDatabase(o, env) =>
              /\ url \in Value
              /\ UrlOf(o) # None => url = UrlOf(o)
              /\ o.database = "docker" => url.kind = "local"
              /\ url.kind = "local" =>
                    docker.up /\ docker.box = "running" /\ url = Local(docker.port)
              /\ skill.db = Says(o, url)
        /\ HasProduct(o, env) =>
              /\ endpoint # None /\ key # None
              /\ o.product => endpoint # Placeholder
              /\ o.apiKey => key # Placeholder
        /\ skill.product = (endpoint # None)
        /\ o.skills => pack # "absent"

\* What Generate makes of the skill.
Generated ==
    [db |-> IF run.db.action = "none" THEN skill.db
            ELSE IF run.db.ours THEN "container"
            ELSE IF run.opts.database = "cloud" THEN "cloud" ELSE "external",
     product |-> run.endpoint # None \/ run.recorded]

LEMMA HasFacts ==
    ASSUME NEW o \in Options
    PROVE  /\ HasDatabase(o, env) <=> PlannedDatabase(o, UrlOf(o)).action # "none"
           /\ HasProduct(o, env) <=> Wired(o)
           /\ ~HasDatabase(o, env) => PlannedDatabase(o, UrlOf(o)) = NoDatabase
<1> DEFINE db == PlannedDatabase(o, UrlOf(o))
<1>1. HasProduct(o, env) <=> Wired(o)
  BY DEF HasProduct, Wired
<1>2. CASE o.database \in {"url", "cloud"}
  <2>1. UrlOf(o) # None
    BY <1>2, ValueFacts DEF UrlOf
  <2>2. db.action = "provided"
    BY <2>1 DEF PlannedDatabase
  <2>3. QED
    BY <1>1, <1>2, <2>2 DEF HasDatabase
<1>3. CASE o.database \notin {"url", "cloud"}
  <2>1. UrlOf(o) = None
    BY <1>3 DEF UrlOf
  <2>2. \A b \in BOOLEAN : LocalDatabase(b).action # "none"
    BY DEF LocalDatabase, ExistingEnv
  <2>3. Replaces(o) \in BOOLEAN
    BY DEF Replaces
  <2>4. HasDatabase(o, env) <=> o.database = "later" \/ WantsDatabase(o)
    BY <1>3, OptionFacts DEF HasDatabase, WantsDatabase
  <2>5. CASE o.database = "later"
    BY <1>1, <2>1, <2>4, <2>5 DEF PlannedDatabase
  <2>6. CASE o.database # "later" /\ WantsDatabase(o)
    <3>1. db = LocalDatabase(Replaces(o))
      BY <2>1, <2>6 DEF PlannedDatabase
    <3>2. QED
      BY <1>1, <2>2, <2>3, <2>4, <2>6, <3>1
  <2>7. CASE o.database # "later" /\ ~WantsDatabase(o)
    <3>1. db = NoDatabase
      BY <2>1, <2>7 DEF PlannedDatabase
    <3>2. QED
      BY <1>1, <2>4, <2>7, <3>1 DEF NoDatabase
  <2>8. QED
    BY <2>5, <2>6, <2>7
<1>4. QED
  BY <1>2, <1>3

\* Setting a key to what it has changes nothing.
LEMMA SetsSame ==
    ASSUME NEW e \in Env, NEW k \in Key, NEW v \in Value, First(e, k) = v, v # None
    PROVE  SetAbsent(e, k, v) = e /\ Replace(e, k, v) = e /\ Fill(e, k, v) = e
<1>1. e[k] # <<>> /\ Head(e[k]) = v /\ e[k][1] = v /\ 1 \in DOMAIN e[k]
  BY ReadFacts DEF First
<1>2. SetAbsent(e, k, v) = e
  BY <1>1 DEF SetAbsent
<1>3. [e EXCEPT ![k][1] = v] = e
  <2>1. [e[k] EXCEPT ![1] = v] = e[k]
    <3>1. PICK s \in Seq(Value) : s = e[k]
      BY LinesFacts DEF Env
    <3>2. [s EXCEPT ![1] = v] = s
      BY <1>1, <3>1
    <3>3. QED
      BY <3>1, <3>2
  <2>2. [e EXCEPT ![k] = e[k]] = e
    BY DEF Env
  <2>3. QED
    BY <2>1, <2>2
<1>4. Replace(e, k, v) = e
  BY <1>1, <1>3 DEF Replace
<1>5. Fill(e, k, v) = e
  BY <1>1, <1>2 DEF Fill
<1>6. QED
  BY <1>2, <1>4, <1>5

\* The database that is planned again is the one that is there.
LEMMA FixedDatabase ==
    ASSUME World, ~Duplicate, NEW o \in Options, Fixed(o), HasDatabase(o, env),
           o.database = "later" => First(env, "REDIS_URL") \in {None, Placeholder}
    PROVE  LET db == PlannedDatabase(o, UrlOf(o))
           IN  /\ db.url = First(env, "REDIS_URL") /\ db.url \in Value
               /\ db.action \in {"provided", "placeholder", "existing", "running"}
               /\ Says(o, db.url) = IF db.ours THEN "container"
                                    ELSE IF o.database = "cloud" THEN "cloud" ELSE "external"
<1> DEFINE db == PlannedDatabase(o, UrlOf(o))
           url == First(env, "REDIS_URL")
<1>1. /\ url = Loaded(env, "REDIS_URL") /\ url \in Value /\ url # None
      /\ UrlOf(o) # None => url = UrlOf(o)
      /\ o.database = "docker" => url.kind = "local"
      /\ url.kind = "local" => docker.up /\ docker.box = "running" /\ url = Local(docker.port)
  <2>1. Len(env["REDIS_URL"]) <= 1
    BY ReadFacts, KeyFacts DEF World, Duplicate
  <2>2. url = Loaded(env, "REDIS_URL")
    BY <2>1, ReadFacts, KeyFacts DEF World
  <2>3. QED
    BY <2>2, ValueFacts DEF Fixed
<1>2. CASE UrlOf(o) # None
  <2>1. db = [action |-> "provided", url |-> url, ours |-> FALSE]
    BY <1>1, <1>2 DEF PlannedDatabase
  <2>2. QED
    BY <1>1, <1>2, <2>1 DEF Says
<1>3. CASE UrlOf(o) = None
  <2>1. o.database \notin {"url", "cloud"}
    BY <1>3, ValueFacts DEF UrlOf
  <2>2. CASE o.database = "later"
    <3>1. db = [action |-> "placeholder", url |-> Placeholder, ours |-> FALSE]
      BY <1>3, <2>2 DEF PlannedDatabase
    <3>2. url = Placeholder /\ url.kind # "local"
      BY <1>1, <2>2, ValueFacts
    <3>3. QED
      BY <1>1, <1>3, <2>2, <3>1, <3>2 DEF Says
  <2>3. CASE o.database # "later"
    <3>1. WantsDatabase(o)
      BY <2>1, <2>3, OptionFacts DEF HasDatabase, WantsDatabase
    <3>2. db = LocalDatabase(Replaces(o))
      BY <1>3, <2>3, <3>1 DEF PlannedDatabase
    <3>3. docker.box # "absent" => docker.port \in Port
      BY DEF World
    <3>4. CASE Replaces(o)
      <4>1. o.database = "docker"
        BY <2>1, <3>4 DEF Replaces
      <4>2. db = [action |-> "running", url |-> Local(docker.port), ours |-> TRUE]
        BY <1>1, <3>2, <3>4, <4>1 DEF LocalDatabase
      <4>3. QED
        BY <1>1, <1>3, <4>1, <4>2 DEF Says
    <3>5. CASE ~Replaces(o) /\ url = Placeholder
      <4>1. db = [action |-> "placeholder", url |-> url, ours |-> FALSE]
        BY <1>1, <3>2, <3>5 DEF LocalDatabase
      <4>2. url.kind # "local"
        BY <3>5, ValueFacts
      <4>3. QED
        BY <1>1, <1>3, <2>1, <4>1, <4>2 DEF Says
    <3>6. CASE ~Replaces(o) /\ url # Placeholder
      <4>1. db = ExistingEnv(url)
        BY <1>1, <3>2, <3>6 DEF LocalDatabase
      <4>2. CASE url.kind = "local"
        <5>1. db = [action |-> "existing", url |-> url, ours |-> TRUE]
          BY <1>1, <4>1, <4>2 DEF ExistingEnv
        <5>2. QED
          BY <1>1, <1>3, <4>2, <5>1 DEF Says
      <4>3. CASE url.kind # "local"
        <5>1. ~(docker.box # "absent" /\ url = Local(docker.port))
          BY <3>3, <4>3, ValueFacts
        <5>2. db = [action |-> "existing", url |-> url, ours |-> FALSE]
          BY <4>1, <5>1 DEF ExistingEnv
        <5>3. QED
          BY <1>1, <1>3, <2>1, <4>3, <5>2 DEF Says
      <4>4. QED
        BY <4>2, <4>3
    <3>7. QED
      BY <3>4, <3>5, <3>6
  <2>4. QED
    BY <2>2, <2>3
<1>4. QED
  BY <1>2, <1>3

\* The plan of the same options is empty.
LEMMA FixedPlan ==
    ASSUME World, NEW o \in Options, Fixed(o), ~Refused(o, UrlOf(o)),
           o.database = "later" => First(env, "REDIS_URL") \in {None, Placeholder}
    PROVE  LET db == PlannedDatabase(o, UrlOf(o))
           IN  /\ EnvWithUrl(o, db) = env /\ EnvWithProduct(o, db) = env
               /\ db.action \notin {"start", "new"}
               /\ ~(~git.ignored /\ (db.action # "none" \/ Wired(o)))
               /\ skill.db = IF db.action = "none" THEN skill.db
                             ELSE IF db.ours THEN "container"
                             ELSE IF o.database = "cloud" THEN "cloud" ELSE "external"
               /\ skill.product = ((IF Wired(o) THEN PlannedEndpoint(o) ELSE None) # None
                                      \/ First(env, "ENDPOINT") # None)
<1> DEFINE db == PlannedDatabase(o, UrlOf(o))
           e == First(env, "ENDPOINT")
           k == First(env, "API_KEY")
<1>1. ~Duplicate /\ env \in Env
  BY DEF Refused, World
<1>2. e = Loaded(env, "ENDPOINT") /\ k = Loaded(env, "API_KEY") /\ e \in Value \cup {None} /\ k \in Value \cup {None}
  BY <1>1, ReadFacts, KeyFacts DEF Duplicate
<1>3. (HasDatabase(o, env) <=> db.action # "none") /\ (HasProduct(o, env) <=> Wired(o))
  BY HasFacts
<1>4. EnvWithUrl(o, db) = env
  <2>1. CASE db.action = "none"
    BY <2>1 DEF EnvWithUrl
  <2>2. CASE db.action # "none"
    <3>1. db.url = First(env, "REDIS_URL") /\ db.url \in Value /\ db.url # None
      BY <1>1, <1>3, <2>2, FixedDatabase, ValueFacts
    <3>2. SetAbsent(env, "REDIS_URL", db.url) = env /\ Replace(env, "REDIS_URL", db.url) = env
      BY <1>1, <3>1, SetsSame, KeyFacts
    <3>3. QED
      BY <3>2 DEF EnvWithUrl
  <2>3. QED
    BY <2>1, <2>2
<1>5. Wired(o) => PlannedEndpoint(o) = e /\ PlannedKey(o) = k /\ e # None /\ k # None
  <2>1. SUFFICES ASSUME Wired(o) PROVE PlannedEndpoint(o) = e /\ PlannedKey(o) = k /\ e # None /\ k # None
    OBVIOUS
  <2>2. /\ e # None /\ k # None
        /\ o.product => e # Placeholder
        /\ o.apiKey => k # Placeholder
    BY <1>2, <1>3, <2>1 DEF Fixed
  <2>3. o.product \in BOOLEAN /\ o.apiKey \in BOOLEAN
    BY OptionFacts
  <2>4. QED
    BY <2>2, <2>3 DEF PlannedEndpoint, PlannedKey, Prefer
<1>6. EnvWithProduct(o, db) = env
  <2>1. Wired(o) => Fill(env, "ENDPOINT", e) = env /\ Fill(env, "API_KEY", k) = env
    BY <1>1, <1>2, <1>5, SetsSame, KeyFacts
  <2>2. QED
    BY <1>4, <1>5, <2>1 DEF EnvWithProduct
<1>7. db.action \notin {"start", "new"}
      /\ skill.db = IF db.action = "none" THEN skill.db
                    ELSE IF db.ours THEN "container"
                    ELSE IF o.database = "cloud" THEN "cloud" ELSE "external"
  <2>1. CASE db.action = "none"
    BY <2>1
  <2>2. CASE db.action # "none"
    <3>1. /\ db.url = First(env, "REDIS_URL") /\ db.action \in {"provided", "placeholder", "existing", "running"}
          /\ Says(o, db.url) = IF db.ours THEN "container"
                               ELSE IF o.database = "cloud" THEN "cloud" ELSE "external"
      BY <1>1, <1>3, <2>2, FixedDatabase
    <3>2. First(env, "REDIS_URL") = Loaded(env, "REDIS_URL")
      BY <1>1, ReadFacts, KeyFacts DEF Duplicate
    <3>3. QED
      BY <1>3, <2>2, <3>1, <3>2 DEF Fixed
  <2>3. QED
    BY <2>1, <2>2
<1>8. skill.product = (e # None) /\ (git.ignored \/ ~(HasDatabase(o, env) \/ HasProduct(o, env)))
  BY <1>2 DEF Fixed
<1>9. QED
  BY <1>3, <1>4, <1>5, <1>6, <1>7, <1>8

-----------------------------------------------------------------------------
(* The third invariant: what a success will leave behind, and how empty the *)
(* plan of a re-run is.                                                     *)

Busy == {"database"} \cup Started

\* What .env will be once the run has written it.
Pending ==
    IF run.pc \in {"database", "ignore", "writeUrl"}
    THEN Written(Written(env, run.envUrl), run.envProduct)
    ELSE IF run.pc = "writeProduct" THEN Written(env, run.envProduct) ELSE env

PlanFacts ==
    run.pc \in Busy =>
        /\ UrlOf(run.opts) # None => run.db.url = UrlOf(run.opts) /\ ~run.db.ours
        /\ run.opts.database = "docker" => run.db.ours
        /\ run.db.action \in {"start", "new", "down"} => run.db.ours
        /\ run.db.action # "none" => run.db.url \in Value
        /\ run.endpoint # None =>
              /\ run.key # None
              /\ run.opts.product => run.endpoint # Placeholder
              /\ run.opts.apiKey => run.key # Placeholder

QuietFacts ==
    run.quiet /\ run.pc \in Busy =>
        /\ run.db.action # "none" <=> HasDatabase(run.opts, Pending)
        /\ run.endpoint # None <=> HasProduct(run.opts, Pending)
        /\ (run.endpoint # None \/ run.recorded) <=> Loaded(Pending, "ENDPOINT") # None
        /\ run.db.action # "none" /\ UrlOf(run.opts) = None /\ ~run.db.ours =>
              ~(docker.up /\ Contained(run.db.url))
        /\ \/ git.ignored
           \/ run.ignore /\ run.pc \in {"database", "ignore"}
           \/ run.db.action = "none" /\ run.endpoint = None
        /\ run.pc \in {"copy", "generate", "validate"} /\ run.opts.skills => pack # "absent"
        /\ run.pc = "validate" => skill.db = Generated.db /\ skill.product = Generated.product

RerunFacts ==
    last # None =>
        /\ Fixed(last)
        /\ Running => run.opts = last /\ run.quiet
        /\ run.pc \in Busy =>
              /\ run.envUrl = None /\ run.envProduct = None /\ ~run.ignore
              /\ run.db.action \notin {"start", "new"}
              /\ skill.db = Generated.db /\ skill.product = Generated.product
              /\ run.pc # "copy"

RInv == PlanFacts /\ QuietFacts /\ RerunFacts

LEMMA PlanStands ==
    ASSUME World, ~Duplicate, NEW o \in Options,
           NEW db, db = PlannedDatabase(o, UrlOf(o)), db.action # "noPort"
    PROVE  /\ UrlOf(o) # None => db.url = UrlOf(o) /\ ~db.ours
           /\ o.database = "docker" => db.ours
           /\ db.action \in {"start", "new", "down"} => db.ours
           /\ db.action # "none" /\ UrlOf(o) = None /\ ~db.ours => ~(docker.up /\ Contained(db.url))
           /\ Wired(o) => /\ PlannedEndpoint(o) # None /\ PlannedKey(o) # None
                          /\ o.product => PlannedEndpoint(o) # Placeholder
                          /\ o.apiKey => PlannedKey(o) # Placeholder
<1>1. UrlOf(o) # None => db = [action |-> "provided", url |-> UrlOf(o), ours |-> FALSE]
  BY DEF PlannedDatabase
<1>2. Wired(o) => /\ PlannedEndpoint(o) # None /\ PlannedKey(o) # None
                  /\ o.product => PlannedEndpoint(o) # Placeholder
                  /\ o.apiKey => PlannedKey(o) # Placeholder
  <2>1. o.product \in BOOLEAN /\ o.apiKey \in BOOLEAN
    BY OptionFacts
  <2>2. Wired(o) => PlannedEndpoint(o) # None /\ PlannedKey(o) # None
    BY ProductFacts, ValueFacts
  <2>3. QED
    BY <2>1, <2>2, ValueFacts DEF PlannedEndpoint, PlannedKey, Prefer
<1>3. CASE UrlOf(o) # None
  <2>1. o.database # "docker"
    BY <1>3 DEF UrlOf
  <2>2. QED
    BY <1>1, <1>2, <1>3, <2>1
<1>4. CASE UrlOf(o) = None
  <2>1. \A p \in Port : Placeholder # Local(p)
    BY ValueFacts
  <2>2. ~Contained(Placeholder)
    BY <2>1 DEF Contained, World
  <2>3. CASE o.database = "later"
    <3>1. db = [action |-> "placeholder", url |-> Placeholder, ours |-> FALSE]
      BY <1>4, <2>3 DEF PlannedDatabase
    <3>2. QED
      BY <1>2, <1>4, <2>2, <2>3, <3>1
  <2>4. CASE o.database # "later" /\ ~WantsDatabase(o)
    <3>1. db = NoDatabase
      BY <1>4, <2>4 DEF PlannedDatabase
    <3>2. o.database # "docker"
      BY <2>4 DEF WantsDatabase
    <3>3. QED
      BY <1>2, <1>4, <3>1, <3>2 DEF NoDatabase
  <2>5. CASE o.database # "later" /\ WantsDatabase(o)
    <3>1. db = LocalDatabase(Replaces(o))
      BY <1>4, <2>5 DEF PlannedDatabase
    <3>2. CASE First(env, "REDIS_URL") # None /\ ~Replaces(o)
      <4>1. db = IF First(env, "REDIS_URL") = Placeholder
                 THEN [action |-> "placeholder", url |-> First(env, "REDIS_URL"), ours |-> FALSE]
                 ELSE ExistingEnv(First(env, "REDIS_URL"))
        BY <3>1, <3>2 DEF LocalDatabase
      <4>2. o.database # "docker"
        BY <3>2 DEF Replaces
      <4>3. LET x == ExistingEnv(First(env, "REDIS_URL"))
            IN  /\ x.action \in {"start", "existing"} /\ (x.action = "start" => x.ours)
                /\ ~x.ours => ~(docker.up /\ Contained(x.url))
        BY DEF ExistingEnv, Contained
      <4>4. QED
        BY <1>2, <1>4, <2>2, <4>1, <4>2, <4>3
    <3>3. CASE ~(First(env, "REDIS_URL") # None /\ ~Replaces(o))
      <4>1. db.ours
        BY <3>1, <3>3 DEF LocalDatabase
      <4>2. QED
        BY <1>2, <1>4, <4>1
    <3>4. QED
      BY <3>2, <3>3
  <2>6. QED
    BY <2>3, <2>4, <2>5
<1>5. QED
  BY <1>3, <1>4

\* The contents that a plan writes call for the same database and product again.
LEMMA PlanRepeats ==
    ASSUME World, ~Duplicate, NEW o \in Options,
           o.database = "later" => First(env, "REDIS_URL") \in {None, Placeholder},
           NEW db, db = PlannedDatabase(o, UrlOf(o)), db.action # "noPort"
    PROVE  LET p == EnvWithProduct(o, db)
           IN  /\ HasDatabase(o, p) <=> db.action # "none"
               /\ HasProduct(o, p) <=> Wired(o)
               /\ (Wired(o) \/ First(env, "ENDPOINT") # None) <=> Loaded(p, "ENDPOINT") # None
<1> DEFINE w == EnvWithUrl(o, db)
           p == EnvWithProduct(o, db)
<1>1. db \in Database /\ (db.action # "none" => db.url \in Value)
  BY DatabaseFacts, OptionFacts
<1>2. /\ p \in Env /\ w["ENDPOINT"] = env["ENDPOINT"] /\ p["REDIS_URL"] = w["REDIS_URL"]
      /\ db.action = "none" => w = env
      /\ ~Wired(o) => p = w
  BY <1>1, ContentFacts, KeyFacts
<1>3. /\ db.action # "none" => Loaded(p, "REDIS_URL") = db.url
      /\ Wired(o) => Loaded(p, "ENDPOINT") = PlannedEndpoint(o)
  BY PlanAgrees
<1>4. (HasDatabase(o, env) <=> db.action # "none") /\ (HasProduct(o, env) <=> Wired(o))
  BY HasFacts
<1>5. db.action # "none" => First(p, "REDIS_URL") # None
  <2>1. db.action # "none" => Loaded(p, "REDIS_URL") # None
    BY <1>1, <1>3, ValueFacts
  <2>2. QED
    BY <1>2, <2>1, ReadFacts, KeyFacts
<1>6. db.action = "none" => First(p, "REDIS_URL") = First(env, "REDIS_URL")
  BY <1>2 DEF First
<1>7. HasDatabase(o, p) <=> db.action # "none"
  BY <1>4, <1>5, <1>6 DEF HasDatabase
<1>8. Wired(o) => Loaded(p, "ENDPOINT") # None /\ First(p, "ENDPOINT") # None
  <2>1. Wired(o) => Loaded(p, "ENDPOINT") # None
    BY <1>3, ProductFacts, ValueFacts
  <2>2. QED
    BY <1>2, <2>1, ReadFacts, KeyFacts
<1>9. ~Wired(o) => /\ First(p, "ENDPOINT") = First(env, "ENDPOINT")
                   /\ Loaded(p, "ENDPOINT") # None <=> First(env, "ENDPOINT") # None
  <2>1. ~Wired(o) => p["ENDPOINT"] = env["ENDPOINT"]
    BY <1>2
  <2>2. First(env, "ENDPOINT") = None <=> env["ENDPOINT"] = <<>>
    BY ReadFacts, KeyFacts DEF World
  <2>3. Loaded(p, "ENDPOINT") = None <=> p["ENDPOINT"] = <<>>
    BY <1>2, ReadFacts, KeyFacts
  <2>4. ~Wired(o) => First(p, "ENDPOINT") = First(env, "ENDPOINT")
    BY <2>1 DEF First
  <2>5. QED
    BY <2>1, <2>2, <2>3, <2>4
<1>10. HasProduct(o, p) <=> Wired(o)
  BY <1>4, <1>8, <1>9 DEF HasProduct
<1>11. QED
  BY <1>7, <1>8, <1>9, <1>10
LEMMA FixedFrame ==
    ASSUME NEW o, last' = o, UNCHANGED <<project, docker>>
    PROVE  Fixed(last)' <=> Fixed(o)
  BY DEF Fixed, HasDatabase, HasProduct, First, Loaded, Says, UrlOf, project

\* What a run that plans or has ended leaves as it was.
LEMMA RestReruns ==
    ASSUME RerunFacts, UNCHANGED <<project, docker>>, last' \in {last, None}, run'.pc \notin Busy,
           last' # None /\ Running' => run'.opts = last /\ run'.quiet
    PROVE  RInv'
<1>1. last' # None => last' = last /\ Fixed(last)'
  BY FixedFrame DEF RerunFacts
<1>2. QED
  BY <1>1 DEF RInv, PlanFacts, QuietFacts, RerunFacts

LEMMA EndedReruns ==
    ASSUME RerunFacts, UNCHANGED <<project, docker>>, last' \in {last, None},
           NEW x \in Ends, run' = Idle(x)
    PROVE  RInv'
<1>1. run'.pc = x
  BY DEF Idle
<1>2. run'.pc \notin Busy /\ ~Running'
  BY <1>1 DEF Busy, Started, Written2, Running, Ends
<1>3. QED
  BY <1>2, RestReruns

LEMMA PlanningReruns ==
    IInv /\ RInv /\ (Start \/ Preflight \/ Resolve \/ Await) => RInv'
<1>1. ASSUME IInv, RInv, Start PROVE RInv'
  <2>1. PICK o \in Options :
          /\ run' = [Idle("none") EXCEPT
                        !.pc = IF o.database = "cloud" THEN "preflight" ELSE "plan",
                        !.opts = o,
                        !.url = IF o.database = "url" THEN Flag ELSE None]
          /\ last' = IF o = last THEN last ELSE None
    BY <1>1 DEF Start
  <2>2. run'.pc \in {"preflight", "plan"} /\ run'.opts = o /\ run'.quiet
    BY <2>1 DEF Idle
  <2>3. run'.pc \notin Busy
    BY <2>2 DEF Busy, Started, Written2
  <2>4. QED
    BY <1>1, <2>1, <2>2, <2>3, RestReruns DEF RInv, Start
<1>2. ASSUME IInv, RInv, Preflight \/ Resolve \/ Await PROVE RInv'
  <2>1. UNCHANGED <<project, docker>> /\ last' = last
    BY <1>2 DEF Preflight, Resolve, Await
  <2>2. CASE End("refused") \/ End("failed")
    BY <1>2, <2>1, <2>2, EndedReruns DEF RInv, End, Ends
  <2>3. CASE Goto("resolve") \/ Goto("await") \/ run' = [run EXCEPT !.pc = "plan", !.url = Cloud]
    <3>1. run'.pc \in {"resolve", "await", "plan"} /\ run'.opts = run.opts /\ run'.quiet = run.quiet
      BY <1>2, <2>3 DEF Goto, IInv, RunOK, Run
    <3>2. run'.pc \notin Busy
      BY <3>1 DEF Busy, Started, Written2
    <3>3. Running
      BY <1>2 DEF Preflight, Resolve, Await, At, Running, Ends
    <3>4. QED
      BY <1>2, <2>1, <3>1, <3>2, <3>3, RestReruns DEF RInv, RerunFacts
  <2>4. QED
    BY <1>2, <2>2, <2>3 DEF Preflight, Resolve, Await
<1>3. QED
  BY <1>1, <1>2

LEMMA PlanStepReruns == IInv /\ AInv /\ RInv /\ Plan => RInv'
<1> SUFFICES ASSUME IInv, AInv, RInv, Plan PROVE RInv'
  OBVIOUS
<1> DEFINE o == run.opts
           db == PlannedDatabase(o, run.url)
           w == EnvWithUrl(o, db)
           p == EnvWithProduct(o, db)
<1>1. World /\ UNCHANGED <<project, docker>> /\ last' = last
  BY DEF IInv, Plan
<1>2. run \in Run /\ run.pc = "plan" /\ o \in Options /\ run.url = UrlOf(o) /\ Running
  BY DEF IInv, RunOK, Plan, At, Running, Ends
<1>3. CASE Refused(o, run.url)
  BY <1>1, <1>3, EndedReruns DEF RInv, Plan, End, Ends
<1>4. CASE ~Refused(o, run.url)
  <2>1. ~Duplicate /\ db.action # "noPort"
    BY <1>4 DEF Refused
  <2>2. db \in Database /\ (db.action # "none" => db.url \in Value)
    BY <1>1, <1>2, <2>1, DatabaseFacts, OptionFacts
  <2>3. w \in Env /\ p \in Env
    BY <1>1, <1>2, <2>1, <2>2, ContentFacts
  <2>4. run' = [run EXCEPT
              !.pc = "database", !.db = db,
              !.ignore = ~git.ignored /\ (db.action # "none" \/ Wired(o)),
              !.envUrl = IF w = env THEN None ELSE w,
              !.envProduct = IF p = w THEN None ELSE p,
              !.endpoint = IF Wired(o) THEN PlannedEndpoint(o) ELSE None,
              !.key = IF Wired(o) THEN PlannedKey(o) ELSE None,
              !.recorded = First(env, "ENDPOINT") # None]
    BY <1>4 DEF Plan
  <2>5. db = PlannedDatabase(o, UrlOf(o))
    BY <1>2
  <2>6. run.quiet => (o.database = "later" => First(env, "REDIS_URL") \in {None, Placeholder})
    BY <1>2 DEF AInv
  <2>7. /\ UrlOf(o) # None => db.url = UrlOf(o) /\ ~db.ours
        /\ o.database = "docker" => db.ours
        /\ db.action \in {"start", "new", "down"} => db.ours
        /\ db.action # "none" /\ UrlOf(o) = None /\ ~db.ours => ~(docker.up /\ Contained(db.url))
        /\ Wired(o) => /\ PlannedEndpoint(o) # None /\ PlannedKey(o) # None
                       /\ o.product => PlannedEndpoint(o) # Placeholder
                       /\ o.apiKey => PlannedKey(o) # Placeholder
    BY <1>1, <1>2, <2>1, <2>5, PlanStands
  <2>8. run.quiet => /\ HasDatabase(o, p) <=> db.action # "none"
                     /\ HasProduct(o, p) <=> Wired(o)
                     /\ (Wired(o) \/ First(env, "ENDPOINT") # None) <=> Loaded(p, "ENDPOINT") # None
    BY <1>1, <1>2, <2>1, <2>5, <2>6, PlanRepeats
  <2>9. last # None =>
          /\ last = o /\ run.quiet
          /\ w = env /\ p = env /\ db.action \notin {"start", "new"}
          /\ ~(~git.ignored /\ (db.action # "none" \/ Wired(o)))
          /\ skill.db = IF db.action = "none" THEN skill.db
                        ELSE IF db.ours THEN "container"
                        ELSE IF o.database = "cloud" THEN "cloud" ELSE "external"
          /\ skill.product = ((IF Wired(o) THEN PlannedEndpoint(o) ELSE None) # None
                                 \/ First(env, "ENDPOINT") # None)
    <3>1. SUFFICES ASSUME last # None
                   PROVE  /\ last = o /\ run.quiet
                          /\ w = env /\ p = env /\ db.action \notin {"start", "new"}
                          /\ ~(~git.ignored /\ (db.action # "none" \/ Wired(o)))
                          /\ skill.db = IF db.action = "none" THEN skill.db
                                        ELSE IF db.ours THEN "container"
                                        ELSE IF o.database = "cloud" THEN "cloud" ELSE "external"
                          /\ skill.product = ((IF Wired(o) THEN PlannedEndpoint(o) ELSE None) # None
                                                 \/ First(env, "ENDPOINT") # None)
      OBVIOUS
    <3>2. last = o /\ run.quiet /\ Fixed(o)
      BY <1>2, <3>1 DEF RInv, RerunFacts
    <3>3. ~Refused(o, UrlOf(o))
      BY <1>2, <1>4
    <3>4. QED
      BY <1>1, <1>2, <2>5, <2>6, <3>2, <3>3, FixedPlan
  <2> HIDE DEF db, w, p, o
  <2>10. /\ run'.pc = "database" /\ run'.db = db /\ run'.opts = o /\ run'.quiet = run.quiet
         /\ run'.ignore = (~git.ignored /\ (db.action # "none" \/ Wired(o)))
         /\ run'.envUrl = IF w = env THEN None ELSE w
         /\ run'.envProduct = IF p = w THEN None ELSE p
         /\ run'.endpoint = IF Wired(o) THEN PlannedEndpoint(o) ELSE None
         /\ run'.key = IF Wired(o) THEN PlannedKey(o) ELSE None
         /\ run'.recorded = (First(env, "ENDPOINT") # None)
    BY <1>2, <2>4 DEF Run, o
  <2>11. env' = env /\ git' = git /\ skill' = skill /\ docker' = docker
    BY <1>1 DEF project
  <2>12. Pending' = p
    BY <2>3, <2>10, <2>11, NoneAssumption DEF Written, Pending
  <2>13. PlanFacts'
    BY <2>2, <2>7, <2>10 DEF PlanFacts, UrlOf
  <2>14. QuietFacts'
    <3>1. SUFFICES ASSUME run.quiet PROVE QuietFacts'
      BY <2>10 DEF QuietFacts
    <3>2. /\ HasDatabase(run.opts, Pending)' <=> HasDatabase(o, p)
          /\ HasProduct(run.opts, Pending)' <=> HasProduct(o, p)
          /\ Loaded(Pending, "ENDPOINT")' = Loaded(p, "ENDPOINT")
      BY <2>10, <2>12 DEF HasDatabase, HasProduct, First, Loaded
    <3>3. Contained(run.db.url)' <=> Contained(db.url)
      BY <2>10, <2>11 DEF Contained
    <3>4. UrlOf(run.opts)' = UrlOf(o)
      BY <2>10 DEF UrlOf
    <3>5. run'.endpoint # None <=> Wired(o)
      BY <2>7, <2>10
    <3>6. QED
      BY <2>7, <2>8, <2>10, <2>11, <3>1, <3>2, <3>3, <3>4, <3>5 DEF QuietFacts
  <2>15. RerunFacts'
    <3>1. SUFFICES ASSUME last # None PROVE RerunFacts'
      BY <1>1 DEF RerunFacts
    <3>2. Fixed(last)'
      BY <1>1, <3>1, FixedFrame DEF RInv, RerunFacts
    <3>3. skill'.db = Generated'.db /\ skill'.product = Generated'.product
      BY <2>9, <2>10, <2>11, <3>1 DEF Generated
    <3>4. QED
      BY <1>1, <2>9, <2>10, <3>1, <3>2, <3>3 DEF RerunFacts
  <2>16. QED
    BY <2>13, <2>14, <2>15 DEF RInv
<1>5. QED
  BY <1>3, <1>4

LEMMA DatabaseReruns == IInv /\ RInv /\ ApplyDatabase => RInv'
<1> SUFFICES ASSUME IInv, RInv, ApplyDatabase PROVE RInv'
  OBVIOUS
<1>1. run.pc = "database" /\ UNCHANGED project /\ last' = last /\ run.pc \in Busy
  BY DEF ApplyDatabase, At, Busy
<1>2. docker' = docker \/ run.db.action \in {"start", "new"}
  BY DEF ApplyDatabase
<1>3. last # None => docker' = docker
  BY <1>1, <1>2 DEF RInv, RerunFacts
<1>4. CASE End("failed")
  <2>1. run'.pc \notin Busy /\ ~Running'
    BY <1>4 DEF End, Idle, Busy, Started, Written2, Running, Ends
  <2>2. last # None => Fixed(last)'
    BY <1>1, <1>3, FixedFrame DEF RInv, RerunFacts
  <2>3. QED
    BY <1>1, <2>1, <2>2 DEF RInv, PlanFacts, QuietFacts, RerunFacts
<1>5. CASE Goto("ignore") /\ ~End("failed")
  <2>1. /\ run'.pc = "ignore" /\ run'.opts = run.opts /\ run'.db = run.db /\ run'.quiet = run.quiet
        /\ run'.envUrl = run.envUrl /\ run'.envProduct = run.envProduct
        /\ run'.endpoint = run.endpoint /\ run'.key = run.key
        /\ run'.recorded = run.recorded /\ run'.ignore = run.ignore
    BY <1>5, KeepsPlan DEF IInv, Phase
  <2>2. run'.pc \in Busy
    BY <2>1 DEF Busy, Started
  <2>3. PlanFacts'
    BY <1>1, <2>1 DEF RInv, PlanFacts, UrlOf
  <2>4. env' = env /\ git' = git /\ skill' = skill
    BY <1>1 DEF project
  <2>5. Pending' = Pending
    BY <1>1, <2>1, <2>4 DEF Pending, Written
  <2>6. QuietFacts'
    <3>1. /\ HasDatabase(run.opts, Pending)' <=> HasDatabase(run.opts, Pending)
          /\ HasProduct(run.opts, Pending)' <=> HasProduct(run.opts, Pending)
          /\ Loaded(Pending, "ENDPOINT")' = Loaded(Pending, "ENDPOINT")
      BY <2>1, <2>5 DEF HasDatabase, HasProduct, First, Loaded
    <3>2. ~run.db.ours => (docker'.up /\ Contained(run.db.url)' <=> docker.up /\ Contained(run.db.url))
      <4>1. ~run.db.ours => docker' = docker
        BY <1>1, <1>2 DEF RInv, PlanFacts
      <4>2. QED
        BY <2>1, <4>1 DEF Contained
    <3>3. UrlOf(run.opts)' = UrlOf(run.opts)
      BY <2>1 DEF UrlOf
    <3>4. QED
      BY <1>1, <2>1, <2>4, <3>1, <3>2, <3>3 DEF RInv, QuietFacts
  <2>7. RerunFacts'
    <3>1. SUFFICES ASSUME last # None PROVE RerunFacts'
      BY <1>1 DEF RerunFacts
    <3>2. Fixed(last)'
      BY <1>1, <1>3, <3>1, FixedFrame DEF RInv, RerunFacts
    <3>3. Generated' = Generated
      BY <2>1, <2>4 DEF Generated
    <3>4. Running
      BY <1>1 DEF Running, Ends
    <3>5. QED
      BY <1>1, <2>1, <2>4, <3>1, <3>2, <3>3, <3>4 DEF RInv, RerunFacts
  <2>8. QED
    BY <2>3, <2>6, <2>7 DEF RInv
<1>6. QED
  BY <1>4, <1>5 DEF ApplyDatabase

\* The steps that write: what they write is the plan, and in a re-run it is nothing.
LEMMA WritingReruns ==
    IInv /\ RInv /\ (Ignore \/ WriteUrl \/ WriteProduct \/ Skills \/ Copy \/ Generate) => RInv'
<1> SUFFICES ASSUME IInv, RInv, Ignore \/ WriteUrl \/ WriteProduct \/ Skills \/ Copy \/ Generate
             PROVE  RInv'
  OBVIOUS
<1>1. PICK pc \in Started \ {"ignore"} : Goto(pc) /\ docker' = docker /\ last' = last
  BY DEF Ignore, WriteUrl, WriteProduct, Skills, Copy, Generate, Started, Written2
<1>2. /\ run'.pc = pc /\ run'.opts = run.opts /\ run'.db = run.db /\ run'.quiet = run.quiet
      /\ run'.envUrl = run.envUrl /\ run'.envProduct = run.envProduct
      /\ run'.endpoint = run.endpoint /\ run'.key = run.key
      /\ run'.recorded = run.recorded /\ run'.ignore = run.ignore
  BY <1>1, KeepsPlan DEF IInv, Phase, Started, Written2
<1>3. run.pc \in Started /\ run.pc \in Busy /\ Running /\ run'.pc \in Busy
  BY <1>2 DEF Ignore, WriteUrl, WriteProduct, Skills, Copy, Generate, Started, Written2, At, Busy,
              Running, Ends
<1>4. PlanFacts'
  BY <1>2, <1>3 DEF RInv, PlanFacts, UrlOf
<1>5. Pending' = Pending
  <2>1. CASE Ignore
    BY <1>2, <2>1 DEF Ignore, At, Goto, IInv, RunOK, Run, Pending, Written
  <2>2. CASE WriteUrl
    BY <1>2, <2>2 DEF WriteUrl, At, Goto, IInv, RunOK, Run, Pending, Written
  <2>3. CASE WriteProduct
    BY <1>2, <2>3 DEF WriteProduct, At, Goto, IInv, RunOK, Run, Pending, Written
  <2>4. CASE Skills \/ Copy \/ Generate
    BY <1>2, <2>4 DEF Skills, Copy, Generate, At, Goto, IInv, RunOK, Run, Pending, Written
  <2>5. QED
    BY <2>1, <2>2, <2>3, <2>4
<1>6. run.pc \in {"ignore"} => pc = "writeUrl"
  BY <1>2 DEF Ignore, WriteUrl, WriteProduct, Skills, Copy, Generate, At, Goto, IInv, RunOK, Run
<1>7. run.quiet =>
         \/ git'.ignored
         \/ run'.ignore /\ run'.pc \in {"database", "ignore"}
         \/ run.db.action = "none" /\ run.endpoint = None
  <2>1. CASE Ignore
    BY <1>3, <2>1 DEF Ignore, At, RInv, QuietFacts, IInv, World
  <2>2. CASE ~Ignore
    <3>1. git' = git /\ run.pc \notin {"database", "ignore"}
      BY <2>2 DEF WriteUrl, WriteProduct, Skills, Copy, Generate, At
    <3>2. QED
      BY <1>3, <3>1 DEF RInv, QuietFacts
  <2>3. QED
    BY <2>1, <2>2
<1>8. run.quiet /\ pc \in {"copy", "generate", "validate"} /\ run.opts.skills => pack' # "absent"
  <2>1. CASE Ignore \/ WriteUrl \/ WriteProduct
    BY <1>2, <2>1 DEF Ignore, WriteUrl, WriteProduct, Goto, IInv, RunOK, Run
  <2>2. CASE Skills \/ Copy
    BY <2>2 DEF Skills, Copy
  <2>3. CASE Generate
    BY <1>3, <2>3 DEF Generate, At, RInv, QuietFacts
  <2>4. QED
    BY <2>1, <2>2, <2>3
<1>9. pc = "validate" => /\ skill' = Generated
                         /\ skill'.db = Generated'.db /\ skill'.product = Generated'.product
  <2>1. SUFFICES ASSUME pc = "validate"
                 PROVE  /\ skill' = Generated
                        /\ skill'.db = Generated'.db /\ skill'.product = Generated'.product
    OBVIOUS
  <2>2. skill' = Generated
    BY <1>2, <2>1 DEF Ignore, WriteUrl, WriteProduct, Skills, Copy, Generate, Generated, Goto, IInv, RunOK, Run
  <2>3. QED
    BY <1>2, <2>2 DEF Generated
<1>10. QuietFacts'
  <2>1. SUFFICES ASSUME run.quiet PROVE QuietFacts'
    BY <1>2 DEF QuietFacts
  <2>2. /\ HasDatabase(run.opts, Pending)' <=> HasDatabase(run.opts, Pending)
        /\ HasProduct(run.opts, Pending)' <=> HasProduct(run.opts, Pending)
        /\ Loaded(Pending, "ENDPOINT")' = Loaded(Pending, "ENDPOINT")
    BY <1>2, <1>5 DEF HasDatabase, HasProduct, First, Loaded
  <2>3. /\ docker'.up = docker.up
        /\ Contained(run.db.url)' <=> Contained(run.db.url)
        /\ UrlOf(run.opts)' = UrlOf(run.opts)
    BY <1>1, <1>2 DEF Contained, UrlOf
  <2>4. QED
    BY <1>2, <1>3, <1>7, <1>8, <1>9, <2>1, <2>2, <2>3 DEF RInv, QuietFacts
<1>11. RerunFacts'
  <2>1. SUFFICES ASSUME last # None PROVE RerunFacts'
    BY <1>1 DEF RerunFacts
  <2>2. /\ Fixed(last) /\ run.opts = last /\ run.quiet
        /\ run.envUrl = None /\ run.envProduct = None /\ ~run.ignore
        /\ run.db.action \notin {"start", "new"}
        /\ skill.db = Generated.db /\ skill.product = Generated.product /\ run.pc # "copy"
    BY <1>3, <2>1 DEF RInv, RerunFacts
  <2>3. env' = env /\ git' = git
    BY <2>2 DEF Ignore, WriteUrl, WriteProduct, Skills, Copy, Generate
  <2>4. pack' = pack /\ pc # "copy"
    <3>1. run.opts.skills => pack # "absent"
      BY <2>2 DEF Fixed
    <3>2. QED
      BY <1>2, <2>2, <3>1 DEF Ignore, WriteUrl, WriteProduct, Skills, Copy, Generate, At, Goto, IInv, RunOK, Run
  <2>5. skill' = skill
    <3>1. CASE Generate
      <4>1. skill' = Generated /\ skill' = [db |-> Generated.db, product |-> Generated.product]
        BY <3>1 DEF Generate, Generated
      <4>2. PICK d, q : skill = [db |-> d, product |-> q]
        BY DEF IInv, World
      <4>3. Generated.db = d /\ Generated.product = q
        BY <2>2, <4>2
      <4>4. QED
        BY <4>1, <4>2, <4>3
    <3>2. CASE ~Generate
      BY <3>2 DEF Ignore, WriteUrl, WriteProduct, Skills, Copy
    <3>3. QED
      BY <3>1, <3>2
  <2>6. Generated' = Generated
    BY <1>2, <2>5 DEF Generated
  <2>7. Fixed(last)'
    BY <1>1, <2>2, <2>3, <2>4, <2>5, FixedFrame DEF project
  <2>8. QED
    BY <1>1, <1>2, <2>1, <2>2, <2>4, <2>5, <2>6, <2>7 DEF RerunFacts
<1>12. QED
  BY <1>4, <1>10, <1>11 DEF RInv

\* A success that nobody has disturbed leaves a project that is Fixed for its options.
LEMMA SuccessFixes ==
    ASSUME IInv, AInv, RInv, At("validate"), run.quiet,
           run.db.url \notin {None, Placeholder} => Answers(run.db.url)
    PROVE  Fixed(run.opts)
<1> DEFINE o == run.opts
           url == Loaded(env, "REDIS_URL")
<1>1. run.pc = "validate" /\ run.pc \in Busy /\ run.pc \in Started /\ run.pc \in Written2 /\ Pending = env
  BY DEF At, Busy, Started, Written2, Pending
<1>2. /\ run.db.action # "none" <=> HasDatabase(o, env)
      /\ run.endpoint # None <=> HasProduct(o, env)
      /\ (run.endpoint # None \/ run.recorded) <=> Loaded(env, "ENDPOINT") # None
      /\ run.db.action # "none" /\ UrlOf(o) = None /\ ~run.db.ours =>
            ~(docker.up /\ Contained(run.db.url))
      /\ git.ignored \/ (run.db.action = "none" /\ run.endpoint = None)
      /\ o.skills => pack # "absent"
      /\ skill.db = Generated.db /\ skill.product = Generated.product
  BY <1>1 DEF RInv, QuietFacts
<1>3. /\ Agrees(env)
      /\ run.db.ours => Contained(run.db.url)
  BY <1>1 DEF AInv
<1>4. /\ UrlOf(o) # None => run.db.url = UrlOf(o) /\ ~run.db.ours
      /\ o.database = "docker" => run.db.ours
      /\ run.db.action # "none" => run.db.url \in Value
      /\ run.endpoint # None => /\ run.key # None
                                /\ o.product => run.endpoint # Placeholder
                                /\ o.apiKey => run.key # Placeholder
  BY <1>1 DEF RInv, PlanFacts
<1>5. git.ignored \/ ~(HasDatabase(o, env) \/ HasProduct(o, env))
  BY <1>2
<1>6. HasDatabase(o, env) =>
         /\ url \in Value
         /\ UrlOf(o) # None => url = UrlOf(o)
         /\ o.database = "docker" => url.kind = "local"
         /\ url.kind = "local" => docker.up /\ docker.box = "running" /\ url = Local(docker.port)
         /\ skill.db = Says(o, url)
  <2>1. SUFFICES ASSUME HasDatabase(o, env)
                 PROVE  /\ url \in Value
                        /\ UrlOf(o) # None => url = UrlOf(o)
                        /\ o.database = "docker" => url.kind = "local"
                        /\ url.kind = "local" =>
                              docker.up /\ docker.box = "running" /\ url = Local(docker.port)
                        /\ skill.db = Says(o, url)
    OBVIOUS
  <2>2. run.db.action # "none" /\ url = run.db.url /\ url \in Value
    BY <1>2, <1>3, <1>4, <2>1 DEF Agrees
  <2>3. run.db.ours => url.kind = "local"
    BY <1>3, <2>2 DEF Contained, Local
  <2>4. url.kind = "local" => docker.up /\ docker.box = "running" /\ url = Local(docker.port)
    <3>1. SUFFICES ASSUME url.kind = "local"
                   PROVE  docker.up /\ docker.box = "running" /\ url = Local(docker.port)
      OBVIOUS
    <3>2. url = Local(url.port)
      BY <2>2, <3>1 DEF Value, Local
    <3>3. url \notin {None, Placeholder}
      BY <2>2, <3>1, ValueFacts
    <3>4. docker.up /\ docker.box = "running" /\ docker.port = url.port
      BY <2>2, <3>1, <3>3 DEF Answers
    <3>5. QED
      BY <3>2, <3>4
  <2>5. UrlOf(o) = None /\ url.kind = "local" => run.db.ours
    BY <1>2, <2>2, <2>4 DEF Contained
  <2>6. run.db.ours \in BOOLEAN
    BY <1>1 DEF IInv, RunOK, Run, Database
  <2>7. skill.db = IF run.db.ours THEN "container"
                   ELSE IF o.database = "cloud" THEN "cloud" ELSE "external"
    BY <1>2, <2>2 DEF Generated
  <2>8. skill.db = Says(o, url)
    BY <1>4, <2>3, <2>5, <2>6, <2>7 DEF Says
  <2>9. QED
    BY <1>4, <2>2, <2>3, <2>4, <2>8
<1>7. HasProduct(o, env) =>
         /\ Loaded(env, "ENDPOINT") # None /\ Loaded(env, "API_KEY") # None
         /\ o.product => Loaded(env, "ENDPOINT") # Placeholder
         /\ o.apiKey => Loaded(env, "API_KEY") # Placeholder
  BY <1>2, <1>3, <1>4 DEF Agrees
<1>8. skill.product = (Loaded(env, "ENDPOINT") # None)
  <2>1. skill.product = (run.endpoint # None \/ run.recorded)
    BY <1>2 DEF Generated
  <2>2. skill.product \in BOOLEAN
    BY DEF IInv, World
  <2>3. QED
    BY <1>2, <2>1, <2>2
<1>9. QED
  BY <1>2, <1>5, <1>6, <1>7, <1>8 DEF Fixed

LEMMA EndingReruns == IInv /\ AInv /\ RInv /\ (Validate \/ Stop) => RInv'
<1> SUFFICES ASSUME IInv, AInv, RInv, Validate \/ Stop PROVE RInv'
  OBVIOUS
<1>1. UNCHANGED <<project, docker>> /\ (End("done") \/ End("failed"))
  BY DEF Validate, Stop
<1>2. run'.pc \notin Busy /\ ~Running'
  BY <1>1 DEF End, Idle, Busy, Started, Written2, Running, Ends
<1>3. CASE last' = last
  BY <1>1, <1>2, <1>3, RestReruns DEF RInv
<1>4. CASE last' # last
  <2>1. /\ At("validate")
        /\ run.db.url \notin {None, Placeholder} => Answers(run.db.url)
        /\ last' = IF run.quiet THEN run.opts ELSE None
    BY <1>4 DEF Validate, Stop
  <2>2. run.quiet => Fixed(run.opts)
    BY <2>1, SuccessFixes
  <2>3. last' # None => Fixed(last)'
    BY <1>1, <2>1, <2>2, FixedFrame
  <2>4. QED
    BY <1>2, <2>3 DEF RInv, PlanFacts, QuietFacts, RerunFacts
<1>5. QED
  BY <1>3, <1>4

LEMMA StepReruns == IInv /\ AInv /\ RInv /\ [Next]_vars => RInv'
<1> SUFFICES ASSUME IInv, AInv, RInv, [Next]_vars PROVE RInv'
  OBVIOUS
<1>1. CASE Settle \/ UNCHANGED vars
  <2>1. run' = run /\ UNCHANGED <<project, docker>> /\ last' = last
    BY <1>1 DEF Settle, vars
  <2>2. last # None => (Fixed(last)' <=> Fixed(last))
    BY <2>1, FixedFrame
  <2>3. /\ Pending' = Pending /\ Generated' = Generated
        /\ UrlOf(run.opts)' = UrlOf(run.opts)
        /\ Contained(run.db.url)' <=> Contained(run.db.url)
    BY <2>1 DEF Pending, Written, Generated, UrlOf, Contained, project
  <2>4. /\ HasDatabase(run.opts, Pending)' <=> HasDatabase(run.opts, Pending)
        /\ HasProduct(run.opts, Pending)' <=> HasProduct(run.opts, Pending)
        /\ Loaded(Pending, "ENDPOINT")' = Loaded(Pending, "ENDPOINT")
    BY <2>1, <2>3 DEF HasDatabase, HasProduct, First, Loaded
  <2>5. PlanFacts' /\ QuietFacts'
    BY <2>1, <2>3, <2>4 DEF RInv, PlanFacts, QuietFacts, project
  <2>6. RerunFacts'
    BY <2>1, <2>2, <2>3 DEF RInv, RerunFacts, project, Running
  <2>7. QED
    BY <2>5, <2>6 DEF RInv
<1>2. CASE EditEnv \/ EditGit \/ EditDocker \/ EditPack
  <2>1. run' = [run EXCEPT !.quiet = ~Running] /\ run \in Run /\ last' = None
    BY <1>2 DEF EditEnv, EditGit, EditDocker, EditPack, Disturb, IInv, RunOK
  <2>2. /\ run'.pc = run.pc /\ run'.opts = run.opts /\ run'.db = run.db /\ run'.quiet = ~Running
        /\ run'.endpoint = run.endpoint /\ run'.key = run.key
    BY <2>1 DEF Run
  <2>3. ~Running => run'.pc \notin Busy
    BY <2>2 DEF Running, Ends, Busy, Started, Written2
  <2>4. PlanFacts'
    BY <2>2 DEF RInv, PlanFacts, UrlOf
  <2>5. QED
    BY <2>1, <2>2, <2>3, <2>4 DEF RInv, QuietFacts, RerunFacts
<1>3. QED
  BY <1>1, <1>2, PlanningReruns, PlanStepReruns, DatabaseReruns, WritingReruns, EndingReruns DEF Next, Apply

\* "Re-running with the same choices preserves the existing setup": after a success that nobody has
\* disturbed, a run of the same options changes no file and no container, wherever it is stopped.
THEOREM RerunChangesNothing == Spec => RerunQuiet
<1> DEFINE Same == Running /\ run.opts = last /\ ByRun => UNCHANGED <<project, docker>>
           All == IInv /\ AInv /\ RInv
<1>1. Init => All
  <2>1. Init => AInv /\ RInv
    BY DEF Init, Idle, AInv, RInv, PlanFacts, QuietFacts, RerunFacts, Busy, Started, Written2
  <2>2. QED
    BY <2>1, InitInv
<1>2. All /\ [Next]_vars => All'
  BY StepInv, StepAgrees, StepReruns
<1>3. All /\ [Next]_vars => [Same]_vars
  <2>1. SUFFICES ASSUME All, [Next]_vars, Running, run.opts = last, edits' = edits
                 PROVE  UNCHANGED <<project, docker>>
    BY DEF ByRun
  <2>2. /\ last # None /\ Fixed(last)
        /\ run.pc \in Busy =>
              /\ run.envUrl = None /\ run.envProduct = None /\ ~run.ignore
              /\ run.db.action \notin {"start", "new"}
              /\ skill.db = Generated.db /\ skill.product = Generated.product
              /\ run.pc # "copy"
    BY <2>1, OptionFacts DEF IInv, RunOK, RInv, RerunFacts
  <2>3. CASE ApplyDatabase \/ Ignore \/ WriteUrl \/ WriteProduct
    BY <2>2, <2>3 DEF ApplyDatabase, Ignore, WriteUrl, WriteProduct, At, Busy, Started, project
  <2>4. CASE Skills \/ Copy
    BY <2>1, <2>2, <2>4 DEF Skills, Copy, At, Busy, Started, Written2, Fixed, project
  <2>5. CASE Generate
    <3>1. skill' = [db |-> Generated.db, product |-> Generated.product]
      BY <2>5 DEF Generate, Generated
    <3>2. PICK d, q : skill = [db |-> d, product |-> q]
      BY <2>1 DEF IInv, World
    <3>3. Generated.db = d /\ Generated.product = q
      BY <2>2, <2>5, <3>2 DEF Generate, At, Busy, Started, Written2
    <3>4. skill' = skill
      BY <3>1, <3>2, <3>3
    <3>5. QED
      BY <2>5, <3>4 DEF Generate, project
  <2>6. CASE EditEnv \/ EditGit \/ EditDocker \/ EditPack
    <3>1. edits \in Nat /\ edits' = edits + 1
      BY <2>1, <2>6, InitAssumption DEF EditEnv, EditGit, EditDocker, EditPack, Disturb, IInv, World
    <3>2. QED
      BY <2>1, <3>1
  <2>7. QED
    BY <2>1, <2>3, <2>4, <2>5, <2>6
       DEF Next, Apply, Start, Preflight, Resolve, Await, Plan, Validate, Stop, Settle, vars, project
<1>4. QED
  BY <1>1, <1>2, <1>3, PTL DEF Spec, RerunQuiet

=============================================================================
