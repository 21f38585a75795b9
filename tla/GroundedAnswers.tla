--------------------------- MODULE GroundedAnswers ---------------------------
(***************************************************************************)
(* `citadel ask` over the index: services/retrieval/ask.py (answer_question, *)
(* _citations_fresh), answer_cache.py and the search of service.py.          *)
(*                                                                          *)
(* One question, asked again and again by one process after the other while *)
(* the daemon indexes.  On the local backend the store is loaded when the   *)
(* process starts; on Redis every call reads it as it is then.              *)
(*                                                                          *)
(* Before a cached answer is served the files it cites are read one after   *)
(* the other, and the citations of a new one are looked up hit by hit, while *)
(* files and index change.                                                  *)
(*                                                                          *)
(* Abstracted: an answer is what it was made from, the text of each file it *)
(* cites; a search finds any set of the indexed files.                      *)
(***************************************************************************)
EXTENDS EmbedderDaemon

VARIABLES asking,    \* where the process stands
          view,      \* the store as the process loaded it
          hits,      \* file -> the text found for the question, or "none"
          cites,     \* file -> the hash cited for it, or "none"
          answer,    \* the cached answer, or NoAnswer
          unread,    \* cited files that _citations_fresh has still to read
          written,   \* files written since it began (history)
          crossed    \* files whose text and hash, indexed or cited, are of
                     \* different moments (history)

askVars == <<asking, view, hits, cites, answer, unread, written, crossed>>
allVars == <<vars, askVars>>

NoFiles == [f \in Files |-> "none"]
NoAnswer == [texts |-> NoFiles, hashes |-> NoFiles]

Source == IF Local THEN view ELSE index

AskInit == /\ Init
           /\ asking = "idle" /\ view = NoStore
           /\ hits = NoFiles /\ cites = NoFiles /\ answer = NoAnswer
           /\ unread = {} /\ written = {} /\ crossed = {}

Cited(a) == {f \in Files : a.hashes[f] # "none"}

\* The process starts: the local store is loaded, the cache is looked up.
Ask == /\ asking = "idle"
       /\ view' = IF Local THEN index ELSE NoStore
       /\ asking' = IF answer = NoAnswer THEN "searching" ELSE "checking"
       /\ unread' = Cited(answer)
       /\ UNCHANGED <<vars, hits, cites, answer, written, crossed>>

Fresh(f) == disk[f] # "gone" /\ answer.hashes[f] = disk[f]

\* A mutant of ReadCited: one fresh citation is enough.
ReadOneCited(f) == /\ asking = "checking" /\ f \in unread /\ Fresh(f)
                   /\ unread' = {}
                   /\ UNCHANGED <<vars, asking, view, hits, cites, answer, written, crossed>>

\* _citations_fresh reads the next file, and it is as it was cited.
ReadCited(f) == /\ asking = "checking" /\ f \in unread /\ Fresh(f)
                /\ unread' = unread \ {f}
                /\ UNCHANGED <<vars, asking, view, hits, cites, answer, written, crossed>>

\* It is not: the answer is dropped.
Invalidate(f) == /\ asking = "checking" /\ f \in unread /\ ~Fresh(f)
                 /\ asking' = "searching" /\ answer' = NoAnswer
                 /\ unread' = {} /\ written' = {}
                 /\ UNCHANGED <<vars, view, hits, cites, crossed>>

\* All were: it is returned.
Serve == /\ asking = "checking" /\ unread = {} /\ asking' = "served"
         /\ UNCHANGED <<vars, view, hits, cites, answer, unread, written, crossed>>

\* service.context: a search finds some of the records; none when it fails.
Search == /\ asking = "searching" /\ asking' = "citing"
          /\ \E found \in SUBSET {f \in Files : Source[f] # NoRecord} :
               hits' = [f \in Files |-> IF f \in found THEN Source[f].text ELSE "none"]
          /\ UNCHANGED <<vars, view, cites, answer, unread, written, crossed>>

\* stored_file_hash of a hit: "" when the record is gone or cannot be read.
Cite(f) == /\ asking = "citing" /\ hits[f] # "none" /\ cites[f] = "none"
           /\ cites' = [cites EXCEPT ![f] = IF Source[f] = NoRecord THEN "gone" ELSE Source[f].hash]
           /\ crossed' = IF Source[f].text # hits[f] THEN crossed \cup {f} ELSE crossed
           /\ UNCHANGED <<vars, asking, view, hits, answer, unread, written>>

Prompt == /\ asking = "citing" /\ asking' = "generating"
          /\ \A f \in Files : hits[f] # "none" => cites[f] # "none"
          /\ UNCHANGED <<vars, view, hits, cites, answer, unread, written, crossed>>

Over == /\ asking' = "idle" /\ view' = NoStore /\ hits' = NoFiles /\ cites' = NoFiles
        /\ unread' = {} /\ written' = {}

\* generate answers, and the answer is cached when it cites something and every
\* hash is there; or it raises.
Generate ==
  /\ asking = "generating"
  /\ \/ /\ \E f \in Files : cites[f] # "none"
        /\ \A f \in Files : cites[f] # "gone"
        /\ answer' = [texts |-> hits, hashes |-> cites]
     \/ UNCHANGED answer
  /\ Over
  /\ UNCHANGED <<vars, crossed>>

\* The process ends, having served the cached answer or before it was done.
Quit == /\ asking # "idle" /\ Over
        /\ UNCHANGED <<vars, answer, crossed>>

AskStep == \/ Ask \/ Serve \/ Search \/ Prompt \/ Generate \/ Quit
           \/ \E f \in Files : ReadCited(f) \/ Invalidate(f) \/ Cite(f)

\* What the daemon and the others do, the files written and those its records cross.
Around == /\ Next
          /\ written' = IF asking = "checking" THEN written \cup {f \in Files : disk'[f] # disk[f]}
                        ELSE written
          /\ crossed' = crossed \cup {f \in Files : index'[f] # index[f]
                                                    /\ index'[f].text # index'[f].hash}
          /\ UNCHANGED <<asking, view, hits, cites, answer, unread>>

AskNext == Around \/ AskStep

AskSpec == AskInit /\ [][AskNext]_allVars

----------------------------------------------------------------------------
AskTypeOK ==
  /\ TypeOK
  /\ asking \in {"idle", "checking", "served", "searching", "citing", "generating"}
  /\ view \in Stores
  /\ hits \in [Files -> Texts \cup {"none"}]
  /\ cites \in [Files -> Contents \cup {"none"}]
  /\ answer \in [texts : [Files -> Texts \cup {"none"}], hashes : [Files -> Contents \cup {"none"}]]
  /\ unread \subseteq Files /\ written \subseteq Files /\ crossed \subseteq Files

\* A cached answer is served only when every file it cites still holds the text it
\* was made from, or was written after the check began, which no check can see:
\* whatever was indexed, deleted, reverted or asked in between, unless the text and
\* the hash of a citation were taken at different moments.
ServedAnswerIsCurrent ==
  [][asking = "checking" /\ asking' = "served" =>
       \A f \in Cited(answer) : answer.texts[f] = disk[f] \/ f \in written \cup crossed]_allVars
=============================================================================
