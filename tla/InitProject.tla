---------------------------- MODULE InitProject ----------------------------
(***************************************************************************)
(* `redisctl init`, run again and again over one project directory.  A run *)
(* plans read-only, then applies the plan: it starts a database, writes    *)
(* .gitignore and .env, copies the skills, generates the project skill and *)
(* validates.  What a file will hold is fixed when it is planned.          *)
(*                                                                         *)
(* The user and the environment act between any two steps: lines of .env   *)
(* are edited, git is told to track or ignore it, containers are stopped,  *)
(* ports are taken.  A run may be killed, or fail, after any step.         *)
(*                                                                         *)
(* One product stands for the three, and a file written by a run is        *)
(* written in one step.                                                    *)
(***************************************************************************)
EXTENDS Naturals, Sequences

CONSTANTS
    Port,      \* the ports that `free_port` tries
    Choices,   \* the database choices that are made (see Choice)
    Copies,    \* may the skills be copied from a checkout?
    None,      \* an absent value
    MaxEdits   \* bound: edits by the user and changes of the environment

Choice == {"auto", "later", "docker", "url", "cloud", "complete", "iris"}

ASSUME InitAssumption ==
    /\ Port \subseteq Nat \ {0}
    /\ Choices \subseteq Choice
    /\ Copies \in BOOLEAN /\ MaxEdits \in Nat

VARIABLES
    env,     \* .env: the values of each key, line by line
    git,     \* is .env ignored, is it tracked?
    docker,  \* the daemon, this project's container, and the ports of other programs
    cloud,   \* the Redis Cloud database of --cloud
    skill,   \* the generated project skill: what it says of the database and the product
    pack,    \* the directory of an official skill
    run,     \* the run under way, or the last one
    last,    \* the options of the last success, unless something else happened since
    edits    \* edits so far

project == <<env, git, skill, pack>>
vars == <<project, docker, cloud, run, last, edits>>

-----------------------------------------------------------------------------
(* The environment file.                                                   *)

Key == {"REDIS_URL", "ENDPOINT", "API_KEY"}

Value == [kind : {"placeholder", "flag", "users", "cloud"}, port : {0}]
            \cup [kind : {"local"}, port : Port]
Placeholder == [kind |-> "placeholder", port |-> 0]
Flag == [kind |-> "flag", port |-> 0]
Users == [kind |-> "users", port |-> 0]
Cloud == [kind |-> "cloud", port |-> 0]
Local(p) == [kind |-> "local", port |-> p]

Configured(v) == v # Placeholder

\* What must not be committed: keys, and URLs with a password.  Endpoints and local URLs may be.
Secret(k, v) == k # "ENDPOINT" /\ v.kind \in {"flag", "users", "cloud"}

\* init reads and edits the first line of a key; dotenv loaders read the last.
First(e, k) == IF e[k] = <<>> THEN None ELSE Head(e[k])
Loaded(e, k) == IF e[k] = <<>> THEN None ELSE e[k][Len(e[k])]

\* Mutant: the line is added whether or not the key is there.
SetAlways(e, k, v) == [e EXCEPT ![k] = Append(@, v)]

\* plan_env_set: a key that is there is kept.
SetAbsent(e, k, v) == IF e[k] = <<>> THEN [e EXCEPT ![k] = <<v>>] ELSE e

\* plan_env_replace: the first line takes the value.
Replace(e, k, v) == IF e[k] = <<>> THEN SetAbsent(e, k, v) ELSE [e EXCEPT ![k][1] = v]

\* plan_env_set_block, one entry: a placeholder is filled in place.
Fill(e, k, v) ==
    IF e[k] # <<>> /\ ~Configured(Head(e[k])) /\ Configured(v)
    THEN Replace(e, k, v) ELSE SetAbsent(e, k, v)

\* prefer_stored, and the key's placeholder if neither is there.
Prefer(stored, flag) ==
    IF stored = None \/ (stored = Placeholder /\ flag # None) THEN flag ELSE stored

-----------------------------------------------------------------------------

\* Of the combinations that the flags allow: the copy of the skills depends on nothing else.
Options == {o \in [database : Choices, product : BOOLEAN, apiKey : BOOLEAN, skills : BOOLEAN] :
               /\ o.product => o.database \in {"auto", "url", "cloud"}
               /\ o.apiKey => o.product
               /\ o.skills => Copies /\ o.database = "iris"}

Action == {"none", "provided", "placeholder", "existing", "start", "running", "down", "new", "noPort"}
Database == [action : Action, url : Value \cup {None}, ours : BOOLEAN]
NoDatabase == [action |-> "none", url |-> None, ours |-> FALSE]

Ends == {"none", "done", "failed", "refused"}
Phase == Ends \cup
    {"preflight", "resolve", "await", "plan", "database", "ignore", "writeUrl", "writeProduct",
     "skills", "copy", "generate", "validate"}

Line == Value \cup {None}
Lines == UNION {[1..n -> Value] : n \in 0..2}
Env == [Key -> Lines]

ASSUME NoneAssumption == None \notin Value \cup Env \cup Options

\* The plan: the database, whether .gitignore is written, the two contents of .env (or None),
\* and the product.  `quiet`: nobody else has changed anything since the run started.
Run == [pc : Phase, opts : Options \cup {None}, url : Line, db : Database, ignore : BOOLEAN,
        envUrl : Env \cup {None}, envProduct : Env \cup {None}, endpoint : Line, key : Line,
        recorded : BOOLEAN, quiet : BOOLEAN]

TypeOK ==
    /\ env \in Env
    /\ git \in [ignored : BOOLEAN, tracked : BOOLEAN]
    /\ docker \in [up : BOOLEAN, box : {"absent", "stopped", "running"}, port : Port \cup {0},
                   taken : SUBSET Port]
    /\ cloud \in {"none", "making", "ready"}
    /\ skill \in [db : {"none", "external", "container", "cloud"}, product : BOOLEAN]
    /\ pack \in {"absent", "users", "torn", "copied"}
    /\ run \in Run
    /\ last \in Options \cup {None}
    /\ edits \in 0..MaxEdits

Idle(outcome) ==
    [pc |-> outcome, opts |-> None, url |-> None, db |-> NoDatabase, ignore |-> FALSE,
     envUrl |-> None, envProduct |-> None, endpoint |-> None, key |-> None, recorded |-> FALSE,
     quiet |-> TRUE]

\* A project that init has not seen; Edit makes the others.
Init ==
    /\ env = [k \in Key |-> <<>>]
    /\ git = [ignored |-> FALSE, tracked |-> FALSE]
    /\ docker = [up |-> TRUE, box |-> "absent", port |-> 0, taken |-> {}]
    /\ cloud = "none"
    /\ skill = [db |-> "none", product |-> FALSE]
    /\ pack = "absent"
    /\ run = Idle("none")
    /\ last = None
    /\ edits = 0

At(pc) == run.pc = pc
Goto(pc) == run' = [run EXCEPT !.pc = pc]
End(outcome) == run' = Idle(outcome)
Running == run.pc \notin Ends

-----------------------------------------------------------------------------
(* Planning.                                                               *)

Free(p) == p \notin docker.taken /\ ~(docker.box = "running" /\ docker.port = p)

\* Mutant: the port after the first free one.
FreePortAfter == 1 + CHOOSE p \in Port : Free(p) /\ \A q \in Port : Free(q) => p <= q

\* free_port takes the first.
FreePort == CHOOSE p \in Port : Free(p) /\ \A q \in Port : Free(q) => p <= q

\* decide_existing_env: a container counts only if the URL points at its port.
ExistingEnv(url) ==
    LET ours == docker.up /\ docker.box # "absent" /\ url = Local(docker.port)
    IN  [action |-> IF ours /\ docker.box = "stopped" THEN "start" ELSE "existing",
         url |-> url, ours |-> ours]

\* plan_local_database
LocalDatabase(ignoreEnv) ==
    LET stored == First(env, "REDIS_URL")
        Fresh(action) ==
            IF \E p \in Port : Free(p)
            THEN [action |-> action, url |-> Local(FreePort), ours |-> TRUE]
            ELSE [action |-> "noPort", url |-> None, ours |-> FALSE]
    IN  IF stored # None /\ ~ignoreEnv
        THEN IF stored = Placeholder
             THEN [action |-> "placeholder", url |-> stored, ours |-> FALSE]
             ELSE ExistingEnv(stored)
        ELSE IF ~docker.up THEN Fresh("down")
        ELSE IF docker.box = "absent" THEN Fresh("new")
        ELSE [action |-> IF docker.box = "running" THEN "running" ELSE "start",
              url |-> Local(docker.port), ours |-> TRUE]

\* Mutant: so is the default.
ReplacesByDefault(o) == o.database \in {"auto", "docker", "url", "cloud"}

\* An explicit choice of the database is consent to replace REDIS_URL.
Replaces(o) == o.database \in {"docker", "url", "cloud"}

WantsDatabase(o) ==
    \/ o.database \in {"later", "docker"}
    \/ o.database = "auto" /\ ~o.product
    \/ o.database = "complete" /\ First(env, "REDIS_URL") # None

PlannedDatabase(o, url) ==
    IF url # None THEN [action |-> "provided", url |-> url, ours |-> FALSE]
    ELSE IF o.database = "later" THEN [action |-> "placeholder", url |-> Placeholder, ours |-> FALSE]
    ELSE IF WantsDatabase(o) THEN LocalDatabase(Replaces(o))
    ELSE NoDatabase

\* wire_one: the product that is asked for, or with --complete the one that .env records.
Wired(o) == o.product \/ (o.database = "complete" /\ First(env, "ENDPOINT") # None)
PlannedEndpoint(o) == Prefer(First(env, "ENDPOINT"), IF o.product THEN Flag ELSE None)
PlannedKey(o) ==
    LET key == Prefer(First(env, "API_KEY"), IF o.apiKey THEN Flag ELSE None)
    IN  IF key = None THEN Placeholder ELSE key

\* The content of .env after REDIS_URL is set, and after the product's block on top of that.
EnvWithUrl(o, db) ==
    IF db.action = "none" THEN env
    ELSE IF Replaces(o) THEN Replace(env, "REDIS_URL", db.url)
    ELSE SetAbsent(env, "REDIS_URL", db.url)
EnvWithProduct(o, db) ==
    IF ~Wired(o) THEN EnvWithUrl(o, db)
    ELSE Fill(Fill(EnvWithUrl(o, db), "ENDPOINT", PlannedEndpoint(o)), "API_KEY", PlannedKey(o))

Holds(e, k, v) == \E i \in DOMAIN e[k] : e[k][i] = v
AddsSecret(e) == \E k \in Key : \E i \in DOMAIN e[k] :
                    Secret(k, e[k][i]) /\ \A l \in Key : ~Holds(env, l, e[k][i])

Duplicate == \E k \in Key : Len(env[k]) > 1
\* Mutant: a key that is set on several lines is not refused.
RefusedUnlessDuplicate(o, url) ==
    LET db == PlannedDatabase(o, url) IN
    \/ o.database = "complete" /\ ~Wired(o) /\ db.action = "none"
    \/ db.action = "noPort"
    \/ git.tracked /\ (Duplicate \/ AddsSecret(EnvWithProduct(o, db)))

Refused(o, url) ==
    LET db == PlannedDatabase(o, url) IN
    \/ Duplicate
    \/ o.database = "complete" /\ ~Wired(o) /\ db.action = "none"
    \/ db.action = "noPort"
    \/ git.tracked /\ AddsSecret(EnvWithProduct(o, db))

\* The wizard offers "later" only without a real REDIS_URL, and a container only with Docker up.
Start ==
    /\ ~Running
    /\ \E o \in Options :
          /\ o.database = "later" => First(env, "REDIS_URL") \in {None, Placeholder}
          /\ o.database = "docker" => docker.up
          /\ run' = [Idle("none") EXCEPT
                        !.pc = IF o.database = "cloud" THEN "preflight" ELSE "plan",
                        !.opts = o,
                        !.url = IF o.database = "url" THEN Flag ELSE None]
          /\ last' = IF o = last THEN last ELSE None
    /\ UNCHANGED <<project, docker, cloud, edits>>

\* Mutant: Redis Cloud is asked at once.
NoPreflight ==
    /\ At("preflight") /\ Goto("resolve")
    /\ UNCHANGED <<project, docker, cloud, last, edits>>

\* "so Redis Cloud is never asked for one in vain"
Preflight ==
    /\ At("preflight")
    /\ IF Refused(run.opts, Cloud) THEN End("refused") ELSE Goto("resolve")
    /\ UNCHANGED <<project, docker, cloud, last, edits>>

\* cloud::resolve connects to a database that is there (or refuses to choose one), or creates one.
Resolve ==
    /\ At("resolve")
    /\ \/ cloud # "none" /\ UNCHANGED cloud /\ (Goto("await") \/ End("failed"))
       \/ cloud = "none" /\ cloud' = "making" /\ (Goto("await") \/ End("failed"))
       \/ cloud = "none" /\ UNCHANGED cloud /\ End("failed")
    /\ UNCHANGED <<project, docker, last, edits>>

\* database_url polls until the endpoint is there, 180 seconds at most.
Await ==
    /\ At("await")
    /\ \/ cloud = "ready" /\ run' = [run EXCEPT !.pc = "plan", !.url = Cloud]
       \/ End("failed")
    /\ UNCHANGED <<project, docker, cloud, last, edits>>

Plan ==
    /\ At("plan")
    /\ LET o == run.opts
           db == PlannedDatabase(o, run.url)
           withUrl == EnvWithUrl(o, db)
           withProduct == EnvWithProduct(o, db)
       IN  IF Refused(o, run.url) THEN End("refused")
           ELSE run' = [run EXCEPT
                   !.pc = "database", !.db = db,
                   !.ignore = ~git.ignored /\ (db.action # "none" \/ Wired(o)),
                   !.envUrl = IF withUrl = env THEN None ELSE withUrl,
                   !.envProduct = IF withProduct = withUrl THEN None ELSE withProduct,
                   !.endpoint = IF Wired(o) THEN PlannedEndpoint(o) ELSE None,
                   !.key = IF Wired(o) THEN PlannedKey(o) ELSE None,
                   !.recorded = First(env, "ENDPOINT") # None]
    /\ UNCHANGED <<project, docker, cloud, last, edits>>

-----------------------------------------------------------------------------
(* Applying.                                                               *)

\* apply_database: `docker start`, or `docker run`, then PING until it answers or 30 seconds are
\* over.  A `docker run` whose port was taken meanwhile leaves the container behind, not started.
ApplyDatabase ==
    /\ At("database")
    /\ LET started == [docker EXCEPT !.box = "running", !.port = run.db.url.port]
           action == run.db.action
       IN  \/ /\ action \in {"none", "provided", "placeholder", "existing", "running"}
              /\ Goto("ignore") /\ UNCHANGED docker
           \/ /\ \/ action = "start" /\ docker.box # "absent" /\ docker.port = run.db.url.port
                 \/ action = "new" /\ docker.box = "absent"
              /\ docker.up /\ run.db.url.port \notin docker.taken
              /\ docker' = started /\ (Goto("ignore") \/ End("failed"))
           \/ /\ action = "new" /\ docker.up /\ docker.box = "absent"
              /\ run.db.url.port \in docker.taken
              /\ docker' = [started EXCEPT !.box = "stopped"] /\ End("failed")
           \/ action \in {"down", "start", "new"} /\ End("failed") /\ UNCHANGED docker
    /\ UNCHANGED <<project, cloud, last, edits>>

\* Mutant: .env is written first.
IgnoreLast ==
    /\ At("ignore")
    /\ git' = git
    /\ Goto("writeUrl")
    /\ UNCHANGED <<env, skill, pack, docker, cloud, last, edits>>

Ignore ==
    /\ At("ignore")
    /\ git' = IF run.ignore THEN [git EXCEPT !.ignored = TRUE] ELSE git
    /\ Goto("writeUrl")
    /\ UNCHANGED <<env, skill, pack, docker, cloud, last, edits>>

\* FileAction::perform writes the planned content, whatever the file holds by now.
WriteUrl ==
    /\ At("writeUrl")
    /\ env' = IF run.envUrl = None THEN env ELSE run.envUrl
    /\ Goto("writeProduct")
    /\ UNCHANGED <<git, skill, pack, docker, cloud, last, edits>>

WriteProduct ==
    /\ At("writeProduct")
    /\ env' = IF run.envProduct = None THEN env ELSE run.envProduct
    /\ Goto("skills")
    /\ UNCHANGED <<git, skill, pack, docker, cloud, last, edits>>

\* copy_steps: a directory that differs from the checkout and is not marked as a copy is taken for
\* the user's own, and an interrupted copy too: it is removed, copied file by file, then marked.
Skills ==
    /\ At("skills")
    /\ IF run.opts.skills /\ pack = "absent"
       THEN pack' = "torn" /\ Goto("copy")
       ELSE Goto("generate") /\ UNCHANGED pack
    /\ UNCHANGED <<env, git, skill, docker, cloud, last, edits>>

Copy ==
    /\ At("copy")
    /\ pack' = "copied" /\ Goto("generate")
    /\ UNCHANGED <<env, git, skill, docker, cloud, last, edits>>

\* project_skill::generate: a run without a database keeps what the skill says about it.
Generate ==
    /\ At("generate")
    /\ skill' = [db |-> IF run.db.action = "none" THEN skill.db
                        ELSE IF run.db.ours THEN "container"
                        ELSE IF run.opts.database = "cloud" THEN "cloud" ELSE "external",
                 product |-> run.endpoint # None \/ run.recorded]
    /\ Goto("validate")
    /\ UNCHANGED <<env, git, pack, docker, cloud, last, edits>>

\* Does a server answer at this URL?  One of Docker does if the container runs; others may.
Answers(url) ==
    url.kind = "local" =>
        docker.up /\ docker.box = "running" /\ docker.port = url.port

\* A placeholder is not validated: the run ends with what is left for the user to fill in.
Validate ==
    /\ At("validate")
    /\ \/ /\ run.db.url \notin {None, Placeholder} => Answers(run.db.url)
          /\ run.key \notin {None, Placeholder} => Configured(run.endpoint)
          /\ End("done")
          /\ last' = IF run.quiet THEN run.opts ELSE None
       \/ End("failed") /\ UNCHANGED last
    /\ UNCHANGED <<project, docker, cloud, edits>>

\* A kill, or a step that fails.
Stop ==
    /\ Running /\ End("failed")
    /\ UNCHANGED <<project, docker, cloud, last, edits>>

-----------------------------------------------------------------------------
(* The user and the environment.                                           *)

Settle ==
    /\ cloud = "making" /\ cloud' = "ready"
    /\ UNCHANGED <<project, docker, run, last, edits>>

Disturb ==
    /\ edits < MaxEdits /\ edits' = edits + 1
    /\ run' = [run EXCEPT !.quiet = ~Running]
    /\ last' = None
    /\ UNCHANGED cloud

EditEnv ==
    /\ Disturb
    /\ \E k \in Key, v \in {Placeholder, Users} \cup {Local(p) : p \in Port} :
          /\ v.kind = "local" => k = "REDIS_URL"
          /\ \E line \in {<<>>, <<v>>, env[k] \o <<v>>} :
                Len(line) <= 2 /\ line # env[k] /\ env' = [env EXCEPT ![k] = line]
    /\ UNCHANGED <<git, skill, pack, docker>>

EditGit ==
    /\ Disturb
    /\ \/ git' = [git EXCEPT !.ignored = ~@]
       \/ git' = [git EXCEPT !.tracked = ~@]
    /\ UNCHANGED <<env, skill, pack, docker>>

EditDocker ==
    /\ Disturb
    /\ \/ docker' = [docker EXCEPT !.up = ~@, !.box = IF @ = "running" THEN "stopped" ELSE @]
       \/ docker.box = "running" /\ docker' = [docker EXCEPT !.box = "stopped"]
       \/ docker.box # "absent" /\ docker' = [docker EXCEPT !.box = "absent", !.port = 0]
       \/ \E p \in Port : Free(p) /\ docker' = [docker EXCEPT !.taken = @ \cup {p}]
       \/ \E p \in docker.taken : docker' = [docker EXCEPT !.taken = @ \ {p}]
    /\ UNCHANGED <<env, git, skill, pack>>

EditPack ==
    /\ Copies /\ Disturb
    /\ \/ pack = "absent" /\ pack' = "users"
       \/ pack # "absent" /\ pack' = "absent"
    /\ UNCHANGED <<env, git, skill, docker>>

Apply ==
    \/ ApplyDatabase \/ Ignore \/ WriteUrl \/ WriteProduct \/ Skills \/ Copy \/ Generate \/ Validate

Next ==
    \/ Start \/ Preflight \/ Resolve \/ Await \/ Plan \/ Apply \/ Stop
    \/ Settle \/ EditEnv \/ EditGit \/ EditDocker \/ EditPack

Spec == Init /\ [][Next]_vars

-----------------------------------------------------------------------------
(* Properties.  A step of a run is one that is not an edit.                *)

ByRun == edits' = edits

\* "`.gitignore` covers it before it is written, and a `.env` that git already tracks is refused
\* rather than handed a secret": whatever run follows whatever failed run, a secret never lands in
\* a .env that git would commit, unless the user told git so while the run was under way.
SecretsIgnored ==
    [][ ByRun /\ run.quiet =>
          \A k \in Key : \A i \in DOMAIN env'[k] :
             Secret(k, env'[k][i]) /\ (\A l \in Key : ~Holds(env, l, env'[k][i])) =>
                git.ignored /\ ~git.tracked ]_vars

\* "An explicit database choice replaces REDIS_URL; other env values are kept": no run, however
\* often it is repeated with other choices, changes a configured value that the user's programs
\* load from .env, nor a skill directory of the user's own.
UserValuesKept ==
    [][ ByRun /\ run.quiet =>
          /\ \A k \in Key :
                Loaded(env, k) # None /\ Configured(Loaded(env, k)) /\ Loaded(env', k) # Loaded(env, k)
                    => k = "REDIS_URL" /\ run.opts.database \in {"docker", "url", "cloud"}
          /\ pack = "users" => pack' = "users" ]_vars

\* A success is about what the user's programs will load: the URL and the product that were
\* validated are the ones .env holds, and the skill names the container, or the Cloud database, only
\* if the URL is its own.
ConnectionAgrees ==
    [][ run.quiet /\ At("validate") /\ run'.pc = "done" =>
          /\ run.db.action # "none" =>
                /\ Loaded(env, "REDIS_URL") = run.db.url
                /\ skill.db = "container" =>
                      docker.box # "absent" /\ run.db.url = Local(docker.port)
                /\ skill.db = "cloud" => run.db.url = Cloud
          /\ run.endpoint # None =>
                /\ Loaded(env, "ENDPOINT") = run.endpoint /\ Loaded(env, "API_KEY") = run.key
                /\ skill.product ]_vars

\* "Re-running with the same choices preserves the existing setup": after a success, and as long
\* as nobody changes anything, a run of the same options changes no file and no container.
RerunQuiet ==
    [][ Running /\ run.opts = last /\ ByRun => UNCHANGED <<project, docker>> ]_vars

\* "so Redis Cloud is never asked for one in vain": after the account was asked, a run is not
\* refused for what the project looks like.
NeverInVain ==
    [][ At("plan") /\ run.url = Cloud /\ run'.pc = "refused" => ~run.quiet ]_vars
=============================================================================
