------------------------------- MODULE Documents -------------------------------
(***************************************************************************)
(* A contract: one document per language, uploaded by administrators in a  *)
(* dialog (components/ContractForm.tsx in routes/_app/contracts/index.tsx, *)
(* hooks/useContracts.ts, domains/contracts/db.rs), approved by those who  *)
(* reserve (ContractApprovalSection in components/ReservationForm.tsx) and *)
(* printed after the cover page of a reservation                           *)
(* (routes/contracts/batch-print.tsx).                                     *)
(*                                                                         *)
(* The files go to an object store one after the other before the contract *)
(* is saved, any step may fail, and several administrators may have the    *)
(* dialog open on what they loaded at different times.  An object is a     *)
(* number, a file its language and the save it was picked for; one         *)
(* contract and one reservation it applies to stand for all of them.       *)
(***************************************************************************)
EXTENDS Integers, Sequences, FiniteSets, Functions

CONSTANTS
  Langs,          \* codes an administrator may enter
  Fallback,       \* the languages a reader falls back to, in order
  PrintLangs,     \* SUPPORTED_LANGUAGES, offered for printing
  PrintFirst,     \* DEFAULT_PRINT_LANGUAGE
  Writers,        \* administrators
  NoDoc,          \* no contract, no dialog, no document
  MaxObjects,     \* bound on the uploads
  MaxSaves        \* bound on the saves

Keys == UNION {[ls -> 1..MaxObjects] : ls \in SUBSET Langs}
NoKeys == [l \in {} |-> 0]
Contract == [keys : Keys, titles : SUBSET Langs, applies : BOOLEAN]

ASSUME DocumentsAssumption ==
  /\ PrintLangs \subseteq Langs /\ PrintFirst \in PrintLangs
  /\ Fallback \in Seq(Langs) /\ Fallback # <<>>
  /\ NoDoc \notin Nat \cup [include : BOOLEAN, lang : PrintLangs] \cup Contract
  /\ MaxObjects \in Nat /\ MaxSaves \in Nat

VARIABLES
  stored,    \* the contract: its document per language, and whether it applies
  objects,   \* the object store: the file in each object
  dialog,    \* per administrator, the dialog
  fetched,   \* the contract as the print page and the dialogs find it in the cache
  printing,  \* the print page
  saves,     \* counts to MaxSaves
  offered    \* history: what the form showed when the contract was last saved

docVars == <<stored, objects, dialog, fetched, printing, saves, offered>>

NoDialog == [pc |-> "closed", edits |-> FALSE, keys |-> NoKeys, langs |-> {}, titles |-> {},
             files |-> {}, pick |-> 0, uploaded |-> NoKeys, done |-> {}, applies |-> TRUE]
Files == [lang : Langs, pick : 1..MaxSaves]
NoPrint == [open |-> FALSE, lang |-> PrintFirst, include |-> FALSE, pc |-> "idle",
            builtFor |-> NoDoc, todo |-> NoDoc, pdf |-> NoDoc]

DocInit ==
  /\ stored = NoDoc /\ objects = <<>>
  /\ dialog = [w \in Writers |-> NoDialog]
  /\ fetched = NoDoc
  /\ printing = NoPrint
  /\ saves = 0 /\ offered = [ready |-> {}, files |-> {}, keys |-> NoKeys, pick |-> 0]

-----------------------------------------------------------------------------
(* The dialog.  The documents of the contract it was opened on stay in it;  *)
(* a contract loaded later does not change it.                              *)
OpenDialog(w) ==
  /\ dialog[w].pc = "closed"
  /\ \/ /\ stored = NoDoc
        /\ dialog' = [dialog EXCEPT ![w].pc = "open"]
     \/ /\ fetched # NoDoc
        /\ dialog' = [dialog EXCEPT ![w] = [NoDialog EXCEPT
             !.pc = "open", !.edits = TRUE, !.keys = fetched.keys,
             !.applies = fetched.applies]]
  /\ UNCHANGED <<stored, objects, fetched, printing, saves, offered>>

(* closing it stops neither uploads nor the save; it may then be opened on  *)
(* another contract, which is left to the others here                       *)
CloseDialog(w) ==
  /\ dialog[w].pc = "open"
  /\ dialog' = [dialog EXCEPT ![w] = NoDialog]
  /\ UNCHANGED <<stored, objects, fetched, printing, saves, offered>>

(* A language is ready when it has a title and a document, a new file or    *)
(* the one that is stored.                                                  *)
Ready(d) == {l \in d.langs \cap d.titles : l \in d.files \/ l \in DOMAIN d.keys}

(* onSubmit, on the fields as they are then, which are its inputs: the      *)
(* languages in the bar, which is never empty, their titles and the files   *)
(* picked.                                                                  *)
Save(w) ==
  /\ dialog[w].pc = "open" /\ saves < MaxSaves              \* bound
  /\ saves' = saves + 1
  /\ \E langs \in (SUBSET Langs) \ {{}} : \E titles, files \in SUBSET langs :
     \E applies \in BOOLEAN :
       dialog' = [dialog EXCEPT ![w].pc = "uploading", ![w].langs = langs,
                    ![w].titles = titles, ![w].files = files, ![w].pick = saves',
                    ![w].uploaded = NoKeys, ![w].done = {}, ![w].applies = applies]
  /\ UNCHANGED <<stored, objects, fetched, printing, offered>>

(* The loop over the languages: presign, then put. A file is uploaded also  *)
(* for a language without a title.                                          *)
Upload(w) ==
  LET d == dialog[w] IN
  /\ d.pc = "uploading"
  /\ \E l \in d.files \ d.done :
       /\ Len(objects) < MaxObjects                         \* bound
       /\ objects' = Append(objects, [lang |-> l, pick |-> d.pick])
       /\ dialog' = [dialog EXCEPT ![w].done = @ \cup {l},
                       ![w].uploaded = [k \in DOMAIN @ \cup {l} |->
                                          IF k = l THEN Len(objects) + 1 ELSE @[k]]]
  /\ UNCHANGED <<stored, fetched, printing, saves, offered>>

(* Presigning, uploading or saving fails: the dialog shows the error and    *)
(* can be used again; what was uploaded stays in the store.                 *)
Again(d) == [NoDialog EXCEPT !.pc = "open", !.edits = d.edits, !.keys = d.keys, !.applies = d.applies]

Break(w) ==
  /\ dialog[w].pc \in {"uploading", "saving"}
  /\ dialog' = [dialog EXCEPT ![w] = Again(@)]
  /\ UNCHANGED <<stored, objects, fetched, printing, saves, offered>>

(* What the loop collects. The first form prefers the document a language   *)
(* had to the one just uploaded.                                            *)
KeyOf_Kept(d, l) ==
  IF l \in DOMAIN d.keys THEN d.keys[l]
  ELSE IF l \in DOMAIN d.uploaded THEN d.uploaded[l] ELSE NoDoc
KeyOf(d, l) ==
  IF l \in DOMAIN d.uploaded THEN d.uploaded[l]
  ELSE IF l \in DOMAIN d.keys THEN d.keys[l] ELSE NoDoc

Collected(d) == [l \in {k \in d.langs \cap d.titles : KeyOf(d, k) # NoDoc} |-> KeyOf(d, l)]

Collect(w) ==
  LET d == dialog[w] IN
  /\ d.pc = "uploading" /\ d.files \subseteq d.done
  /\ dialog' = IF Collected(d) = NoKeys THEN [dialog EXCEPT ![w] = Again(@)]
                 ELSE [dialog EXCEPT ![w].pc = "saving"]
  /\ UNCHANGED <<stored, objects, fetched, printing, saves, offered>>

(* create and update of the server; the dialog closes unless the answer is  *)
(* lost, and the contracts are fetched again                                *)
Store(w) ==
  LET d == dialog[w] IN
  /\ d.pc = "saving" /\ (d.edits <=> stored # NoDoc)
  /\ stored' = [keys |-> Collected(d), titles |-> DOMAIN Collected(d),
                applies |-> d.applies]
  /\ offered' = [ready |-> Ready(d), files |-> d.files, keys |-> d.keys, pick |-> d.pick]
  /\ \/ dialog' = [dialog EXCEPT ![w] = NoDialog] /\ fetched' = stored'
     \/ dialog' = [dialog EXCEPT ![w] = Again(@)] /\ UNCHANGED fetched
  /\ UNCHANGED <<objects, printing, saves>>

Refetch ==
  /\ stored # NoDoc /\ fetched' = stored
  /\ UNCHANGED <<stored, objects, dialog, printing, saves, offered>>

-----------------------------------------------------------------------------
(* Which document a reader is shown: the one of the language, or of the     *)
(* first of the fallbacks that has one, or any.                             *)
Choice(keys, order) ==
  LET has == {i \in DOMAIN order : order[i] \in DOMAIN keys} IN
  IF has # {} THEN {keys[order[CHOOSE i \in has : \A j \in has : i <= j]]}
  ELSE {keys[l] : l \in DOMAIN keys}

(* ContractApprovalSection, in the language of the page *)
Approves(keys, l) == Choice(keys, <<l>> \o Fallback)

(* prepareBatchPdf, in the language of the printout: the last fallback is   *)
(* not tried                                                                *)
Prints(keys, l) == Choice(keys, <<l>> \o SubSeq(Fallback, 1, Len(Fallback) - 1))

(* getApplicableContracts: active, and global or of one of the resources *)
Applies(c) == c # NoDoc /\ c.applies

-----------------------------------------------------------------------------
(* The print page.  buildKey says what the document on the page was made    *)
(* for; it is made again only when that changes, and while it is being made *)
(* the page has no controls.  The first form forgets the language.          *)
BuildKey_IncludeOnly(p) == [include |-> p.include, lang |-> PrintFirst]
BuildKey(p) == [include |-> p.include, lang |-> p.lang]

Controls(p) == p.open /\ p.pc = "idle"

OpenPrint ==
  /\ ~printing.open /\ fetched # NoDoc
  /\ printing' = [NoPrint EXCEPT !.open = TRUE]
  /\ UNCHANGED <<stored, objects, dialog, fetched, saves, offered>>

ClosePrint ==
  /\ printing.open /\ printing' = NoPrint
  /\ UNCHANGED <<stored, objects, dialog, fetched, saves, offered>>

Choose ==
  /\ Controls(printing) /\ printing.builtFor = BuildKey(printing)
  /\ \/ \E l \in PrintLangs : printing' = [printing EXCEPT !.lang = l]
     \/ printing' = [printing EXCEPT !.include = ~@]
  /\ UNCHANGED <<stored, objects, dialog, fetched, saves, offered>>

(* the effect that runs after the page is drawn *)
Build ==
  /\ Controls(printing) /\ printing.builtFor # BuildKey(printing)
  /\ printing' = [printing EXCEPT !.pc = "merging", !.builtFor = BuildKey(printing),
                    !.todo = IF printing.include /\ Applies(fetched) THEN fetched.keys ELSE NoKeys]
  /\ UNCHANGED <<stored, objects, dialog, fetched, saves, offered>>

(* The document is downloaded, in the language chosen, and the page is done *)
Finish ==
  /\ printing.pc = "merging"
  /\ \E docs \in IF printing.todo = NoKeys THEN {{}}
                 ELSE {{doc} : doc \in Prints(printing.todo, printing.lang)} :
       printing' = [printing EXCEPT !.pc = "idle", !.todo = NoDoc,
                      !.pdf = [lang |-> printing.lang, docs |-> docs,
                               of |-> printing.todo, include |-> printing.include]]
  /\ UNCHANGED <<stored, objects, dialog, fetched, saves, offered>>

(* a download fails: the page says so and has no controls any more *)
PrintFails ==
  /\ printing.pc = "merging"
  /\ printing' = [printing EXCEPT !.pc = "failed", !.todo = NoDoc]
  /\ UNCHANGED <<stored, objects, dialog, fetched, saves, offered>>

DocNext ==
  \/ \E w \in Writers : \/ OpenDialog(w) \/ CloseDialog(w) \/ Save(w) \/ Upload(w)
                        \/ Break(w) \/ Collect(w) \/ Store(w)
  \/ Refetch \/ OpenPrint \/ ClosePrint \/ Choose \/ Build \/ Finish \/ PrintFails

DocSpec == DocInit /\ [][DocNext]_docVars

-----------------------------------------------------------------------------
(* The types of the state. *)
DocTypeOK ==
  /\ stored \in Contract \cup {NoDoc} /\ fetched \in Contract \cup {NoDoc}
  /\ objects \in Seq(Files) /\ Len(objects) <= MaxObjects
  /\ \A w \in Writers : /\ dialog[w].pc \in {"closed", "open", "uploading", "saving"}
                        /\ dialog[w].keys \in Keys /\ dialog[w].uploaded \in Keys
  /\ printing.pc \in {"idle", "merging", "failed"} /\ printing.lang \in PrintLangs
  /\ saves \in 0..MaxSaves

(* A stored contract has a title exactly for the languages that the form    *)
(* marked as ready, at least one, and for each of them a document in that   *)
(* language: where a file had been picked for this save that very file, and *)
(* never one of an earlier save or of another administrator's, and else the *)
(* one the form showed as stored; whatever uploads and saves failed before  *)
(* and however old the form was.                                            *)
StoredIsWhole ==
  stored # NoDoc =>
    /\ DOMAIN stored.keys = stored.titles /\ stored.titles # {}
    /\ stored.titles = offered.ready
    /\ \A l \in stored.titles :
         /\ stored.keys[l] \in DOMAIN objects /\ objects[stored.keys[l]].lang = l
         /\ IF l \in offered.files THEN objects[stored.keys[l]].pick = offered.pick
            ELSE stored.keys[l] = offered.keys[l]

(* While the print page has its controls, the document on it was made for   *)
(* what they show, and where it holds a contract in a language for which    *)
(* the contract has a document of its own, that document is the one the     *)
(* form offers for approval in that language, of the contract as the page   *)
(* found it: what a reserver approved earlier is not on record.             *)
PrintedIsChosen ==
  Controls(printing) /\ printing.builtFor = BuildKey(printing) =>
    /\ printing.pdf.lang = printing.lang /\ printing.pdf.include = printing.include
    /\ printing.lang \in DOMAIN printing.pdf.of =>
         printing.pdf.docs = Approves(printing.pdf.of, printing.lang)
=============================================================================
