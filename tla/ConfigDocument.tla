--------------------------- MODULE ConfigDocument ---------------------------
(***************************************************************************)
(* The configuration file and the documents through which commands edit it. *)
(* A document is loaded from the file, with the environment of that moment, *)
(* is edited in memory, and saved: every command does so once, a program    *)
(* that embeds the library may do it again and again.  A value of the file  *)
(* may be a reference to the environment; the document holds what it        *)
(* resolved to and has to put the reference back when it saves.             *)
(*                                                                          *)
(* There is one document at a time, and other programs that write the file. *)
(* A profile has one credential field and up to two tags; one of the fields *)
(* outside of the profiles is modelled, the default profile.                *)
(***************************************************************************)
EXTENDS Naturals, FiniteSets

CONSTANTS
    Profile,   \* names of profiles
    Value,     \* literal values, the names among them
    Var,       \* references to variables of the environment
    None,      \* no value, no file
    Path,      \* the config file and where a document may be saved to
    Home,      \* the config file
    Sources,   \* what other programs write to these files
    Envs,      \* the environments of the processes
    MaxEdits,  \* bound of the model on edits of all documents
    MaxOthers  \* bound of the model on writes of other programs

Slot == {<<"config", "default">>} \cup Profile \X {"key", "tag1", "tag2"}
Text == Value \cup Var
Table == [Slot -> Text \cup {None}]

Default == <<"config", "default">>
Key(p) == <<p, "key">>
Tags(p) == {<<p, "tag1">>, <<p, "tag2">>}

\* A table that a file may hold: a profile has its credential, and tags are numbered from the first.
WellFormed(t) ==
    \A p \in Profile :
        /\ t[Key(p)] = None => \A s \in Tags(p) : t[s] = None
        /\ t[<<p, "tag1">>] = None => t[<<p, "tag2">>] = None

Inode == 1..2

ASSUME DocumentAssumption ==
    /\ "config" \notin Profile /\ Profile \subseteq Value
    /\ Value \cap Var = {} /\ None \notin Text
    /\ Home \in Path
    /\ Sources \subseteq {t \in Table : WellFormed(t)}
    /\ Envs \subseteq [Var -> Value \cup {None}]
    /\ MaxEdits \in Nat /\ MaxOthers \in Nat

VARIABLES
    files,   \* the files, by path
    doc,     \* the document
    loaded,  \* history: the table it was loaded from
    raced,   \* history: did another program write between the check and the write?
    edits,   \* edits so far
    others   \* writes of other programs so far

vars == <<files, doc, loaded, raced, edits, others>>

File == [text : Table, inode : Inode]
Empty == [s \in Slot |-> None]

\* What a reference resolves to; one whose variable is not set stays as it is.
Resolve(env, text) == IF text \in Var /\ env[text] # None THEN env[text] ELSE text

\* `references`: the original text of the slots that are restored when the document is saved;
\* `snapshot`: the values when it was loaded or last saved; `allowed`: the slots that are declared to
\* be replaced; `origins`: what references resolved to when the document was loaded.
Document ==
    [pc : {"closed", "open", "checked", "written"}, env : [Var -> Value \cup {None}],
     config : Table, snapshot : Table, source : File \cup {None}, path : Path, destination : Path,
     references : [Slot -> Var \cup {None}], allowed : SUBSET Slot, origins : SUBSET Text]

SourceText(d) == IF d.source = None THEN Empty ELSE d.source.text

TypeOK ==
    /\ files \in [Path -> File \cup {None}]
    /\ doc \in Document
    /\ WellFormed(doc.config)
    /\ \A s \in Slot : doc.references[s] # None => doc.snapshot[s] # None
    /\ loaded \in Table
    /\ raced \in BOOLEAN
    /\ edits \in 0..MaxEdits /\ others \in 0..MaxOthers

Closed ==
    [pc |-> "closed", env |-> [v \in Var |-> None], config |-> Empty, snapshot |-> Empty,
     source |-> None, path |-> Home, destination |-> Home,
     references |-> [s \in Slot |-> None], allowed |-> {}, origins |-> {}]

Init ==
    /\ files \in {[p \in Path |-> IF p = Home THEN f ELSE None] :
                      f \in {[text |-> t, inode |-> 1] : t \in Sources} \cup {None}}
    /\ doc = Closed
    /\ loaded = Empty
    /\ raced = FALSE
    /\ edits = 0 /\ others = 0

-----------------------------------------------------------------------------

\* load_from_path, collect_references
Load ==
    /\ doc.pc = "closed"
    /\ \E env \in Envs :
         LET text == IF files[Home] = None THEN Empty ELSE files[Home].text
             config == [s \in Slot |-> Resolve(env, text[s])]
         IN  /\ doc' = [Closed EXCEPT
                          !.pc = "open", !.env = env, !.source = files[Home],
                          !.config = config, !.snapshot = config,
                          !.references = [s \in Slot |-> IF text[s] \in Var THEN text[s] ELSE None],
                          !.origins = {config[s] : s \in {r \in Slot : text[r] \in Var}}]
             /\ loaded' = text
    /\ UNCHANGED <<files, raced, edits, others>>

\* The process ends, or drops its document.
Exit ==
    /\ doc.pc # "closed"
    /\ doc' = Closed /\ loaded' = Empty /\ raced' = FALSE
    /\ UNCHANGED <<files, edits, others>>

Edit(config, allow) ==
    /\ doc.pc = "open" /\ edits < MaxEdits
    /\ doc' = [doc EXCEPT !.config = config, !.allowed = @ \cup allow]
    /\ edits' = edits + 1
    /\ UNCHANGED <<files, loaded, raced, others>>

Exists(p) == doc.config[Key(p)] # None

\* profile_create of the MCP server: a new profile, and the default if it is the first or on request,
\* which may also be not to.
Create(p, v, makeDefault) ==
    /\ ~Exists(p)
    /\ IF makeDefault
       THEN Edit([doc.config EXCEPT ![Key(p)] = v, ![Default] = p], {Key(p), Default})
       ELSE Edit([doc.config EXCEPT ![Key(p)] = v], {Key(p)})

\* The wizard replaces the whole profile, tags and all; the only profile becomes the default.
Wizard(p, v) ==
    LET profile == [s \in Slot |-> IF s[1] # p THEN doc.config[s] ELSE IF s = Key(p) THEN v ELSE None]
        only == \A q \in Profile \ {p} : ~Exists(q)
    IN  IF only THEN Edit([profile EXCEPT ![Default] = p], {Key(p), Default} \cup Tags(p))
        ELSE Edit(profile, {Key(p)} \cup Tags(p))

\* `profile set`: the credentials; the tags only if new ones are given, and then all of them.
Set(p, v, tag) ==
    IF tag = None THEN Edit([doc.config EXCEPT ![Key(p)] = v], {Key(p)})
    ELSE Edit([doc.config EXCEPT ![Key(p)] = v, ![<<p, "tag1">>] = tag, ![<<p, "tag2">>] = None],
              {Key(p)} \cup Tags(p))

\* profile_delete, `profile remove`: the default goes with the profile.
Remove(p) ==
    /\ Exists(p)
    /\ Edit([s \in Slot |->
               IF s[1] = p \/ (s = Default /\ doc.config[Default] = p) THEN None ELSE doc.config[s]], {})

\* profile_set_default_*, `profile default-*`
SetDefault(p) ==
    /\ Exists(p)
    /\ Edit([doc.config EXCEPT ![Default] = p], {Default})

\* A program that embeds the library: change a field, put a profile it kept under another name, drop
\* a tag, and declare a replacement.
Change(s, v) ==
    /\ doc.config[s] # None
    /\ Edit([doc.config EXCEPT ![s] = v], {})

Copy(p, q) ==
    /\ Exists(p) /\ p # q
    /\ Edit([s \in Slot |-> IF s[1] = q THEN doc.config[<<p, s[2]>>] ELSE doc.config[s]], {})

DropTag(p) ==
    /\ doc.config[<<p, "tag1">>] # None
    /\ Edit([doc.config EXCEPT ![<<p, "tag1">>] = doc.config[<<p, "tag2">>], ![<<p, "tag2">>] = None], {})

AllowLiteralReplacement(s) == Edit(doc.config, {s})

-----------------------------------------------------------------------------
(* write_with                                                              *)

Tracked(d, s) == d.references[s] # None /\ s \notin d.allowed

\* Mutant: a source that was deleted is taken as unchanged.
UnchangedIfPresent(d) == files[d.path] = None \/ files[d.path] = d.source

SourceUnchanged(d) == files[d.path] = d.source

\* A new or changed value that some reference resolved to when the document was loaded.
Copied(d, s) ==
    /\ d.config[s] # None /\ d.config[s] # d.snapshot[s]
    /\ s \notin d.allowed /\ d.references[s] = None
    /\ d.config[s] \in d.origins

\* Tags that moved: an array with a reference keeps its length as long as it is there.
Reshaped(d, p) ==
    /\ \E s \in Tags(p) : Tracked(d, s)
    /\ \E s \in Tags(p) : d.config[s] # None
    /\ \E s \in Tags(p) : (d.config[s] = None) # (d.snapshot[s] = None)

\* A reference that is still there, but not what it resolved to.
Edited(d, s) ==
    /\ Tracked(d, s) /\ d.config[s] # None
    /\ d.config[s] # Resolve(d.env, d.references[s])

Ambiguous(d) ==
    \/ \E s \in Slot : Copied(d, s) \/ Edited(d, s)
    \/ \E p \in Profile : Reshaped(d, p)

\* The checks; a refused save changes nothing but what the caller is told.
Check(destination) ==
    /\ doc.pc = "open"
    /\ SourceUnchanged(doc)
    /\ destination # doc.path => files[destination] = None
    /\ ~Ambiguous(doc)
    /\ doc' = [doc EXCEPT !.pc = "checked", !.destination = destination]
    /\ UNCHANGED <<files, loaded, raced, edits, others>>

\* Mutant: every reference is written back, whatever became of its slot.
RestoreAlways(d) ==
    [s \in Slot |-> IF d.references[s] # None /\ s \notin d.allowed THEN d.references[s] ELSE d.config[s]]

\* What is written: the references in their places, everything else literally.
Serialized(d) ==
    [s \in Slot |-> IF Tracked(d, s) /\ d.config[s] # None THEN d.references[s] ELSE d.config[s]]

\* fs::write in place, or the owner-only writer, which renames a new file over the old one.
Write ==
    /\ doc.pc = "checked"
    /\ \E inode \in Inode :
         files' = [files EXCEPT ![doc.destination] = [text |-> Serialized(doc), inode |-> inode]]
    /\ doc' = [doc EXCEPT !.pc = "written"]
    /\ raced' = FALSE
    /\ UNCHANGED <<loaded, edits, others>>

\* A write that fails leaves the file as it was or, in place, truncated.
WriteFails ==
    /\ doc.pc = "checked"
    /\ \/ UNCHANGED files
       \/ /\ files[doc.destination] # None
          /\ files' = [files EXCEPT ![doc.destination].text = Empty]
    /\ doc' = [doc EXCEPT !.pc = "open", !.destination = doc.path]
    /\ raced' = FALSE
    /\ UNCHANGED <<loaded, edits, others>>

\* Mutant: a reference stays with its slot when the slot is deleted.
RetainedAll(d) == [s \in Slot |-> IF s \in d.allowed THEN None ELSE d.references[s]]

\* "Deleted references must not spring back if a later edit reuses the same path."
Retained(d) ==
    [s \in Slot |-> IF s \in d.allowed \/ d.config[s] = None THEN None ELSE d.references[s]]

\* Mutant: the origins are those of the references that are left.
OriginsLeft(d, source) ==
    [d EXCEPT !.pc = "open", !.source = source, !.path = d.destination, !.allowed = {},
              !.references = Retained(d), !.snapshot = d.config,
              !.origins = {Resolve(d.env, Retained(d)[s]) : s \in {r \in Slot : Retained(d)[r] # None}}]

\* Mutant: the values at the load stay the baseline.
OldSnapshot(d, source) ==
    [d EXCEPT !.pc = "open", !.source = source, !.path = d.destination, !.allowed = {},
              !.references = Retained(d)]

\* The document after a save.
Rebased(d, source) ==
    [d EXCEPT !.pc = "open", !.source = source, !.path = d.destination, !.allowed = {},
              !.references = Retained(d), !.snapshot = d.config]

\* The file is read again: what another program wrote in between is not taken for the document's.
Verify ==
    /\ doc.pc = "written"
    /\ LET found == files[doc.destination] IN
       IF found # None /\ found.text = Serialized(doc)
       THEN doc' = Rebased(doc, found)
       ELSE doc' = [doc EXCEPT !.pc = "open", !.destination = doc.path]
    /\ UNCHANGED <<files, loaded, raced, edits, others>>

\* Another program writes or removes a file.
Other(p) ==
    /\ others < MaxOthers
    /\ \E f \in [text : Sources, inode : Inode] \cup {None} :
         f # files[p] /\ files' = [files EXCEPT ![p] = f]
    /\ raced' = (doc.pc = "checked")
    /\ others' = others + 1
    /\ UNCHANGED <<doc, loaded, edits>>

EditAny ==
    \/ \E p \in Profile, v \in Value, makeDefault \in BOOLEAN : Create(p, v, makeDefault)
    \/ \E p \in Profile, v \in Value : Wizard(p, v)
    \/ \E p \in Profile, v \in Value, tag \in Value \cup {None} : Set(p, v, tag)
    \/ \E p \in Profile : Remove(p) \/ SetDefault(p) \/ DropTag(p)
    \/ \E s \in Slot, v \in Value : Change(s, v)
    \/ \E p \in Profile, q \in Profile : Copy(p, q)
    \/ \E s \in Slot : AllowLiteralReplacement(s)

Next ==
    \/ Load \/ Exit \/ EditAny
    \/ \E p \in Path : Check(p) \/ Other(p)
    \/ Write \/ WriteFails \/ Verify

Spec == Init /\ [][Next]_vars

-----------------------------------------------------------------------------
(* Properties.                                                             *)

\* "A document never guesses provenance from the current environment": what it takes for unchanged
\* is what its source holds, by the environment it was loaded with, after any number of saves.
SnapshotAgrees ==
    doc.pc # "closed" =>
        \A s \in Slot : doc.snapshot[s] = Resolve(doc.env, SourceText(doc)[s])

Saves == doc.pc = "checked" /\ doc'.pc = "written"
Written == files'[doc.destination].text

\* "Reference edits must be explicit; unrelated edits preserve original references", and "deleted
\* references must not spring back": but for the slots that are declared, a save writes a reference
\* exactly where the source has it and the value is still there.
ReferencesStay ==
    [][ Saves => \A s \in Slot \ doc.allowed : \A v \in Var :
          doc.env[v] # None =>
              (Written[s] = v <=> SourceText(doc)[s] = v /\ doc.config[s] # None) ]_vars

\* "Fail closed if a new/changed untracked slot contains a loaded reference value": what a reference
\* resolved to when the document was loaded is only written where the source has it literally, or
\* where it was declared, whatever happened to the reference since.
ResolvedStaysOut ==
    [][ Saves => \A s \in Slot \ doc.allowed : \A r \in Slot :
          loaded[r] \in Var /\ Written[s] = Resolve(doc.env, loaded[r]) =>
              SourceText(doc)[s] = Written[s] ]_vars

\* "Source checks detect changes observed before the write": what a save overwrites is what the
\* document was loaded from or last saved, unless another program wrote after the check.
ObservedKept ==
    [][ Saves /\ ~raced =>
          files[doc.destination] = IF doc.destination = doc.path THEN doc.source ELSE None ]_vars
=============================================================================
