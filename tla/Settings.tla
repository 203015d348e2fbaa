------------------------------- MODULE Settings -------------------------------
(***************************************************************************)
(* The settings file of the server, coder.json, and the SettingsProvider   *)
(* of src/node/settings.ts that reads it and merges into it.  write() is   *)
(* a read, a merge and an fs.writeFile, which truncates the file and then  *)
(* fills it; other writes of this process, or of the server generation     *)
(* that is being replaced, may run between any two of these steps.         *)
(***************************************************************************)
EXTENDS Naturals

CONSTANTS
  Server,  \* the processes that share the file
  Call,    \* names for the calls of write() a process may have in progress
  Key,     \* the top-level settings: "update" and "query"
  Value    \* the values written to a setting

CONSTANT NoValue

ASSUME KeyAssumption == Key # {}
ASSUME NoValueAssumption == NoValue \notin Value

Writer == Server \X Call

\* A document gives each setting its value, NoValue when the setting is not there.
Doc == [Key -> Value \cup {NoValue}]

Empty == [k \in Key |-> NoValue]

VARIABLES
  file,    \* the document in the file; Empty stands for no file and for an empty one
  torn,    \* whether the file holds two documents written over one another
  step,    \* step[w]: "idle", "merged" (read and merged) or "opened" (truncated)
  key,     \* key[w]: the setting that w writes
  next,    \* next[w]: nextSettings, the document that w is going to write
  \* What the properties compare with; the code does not keep it.
  latest,  \* latest[k]: the value of the last write of setting k that ended well
  harmed,  \* whether a write overlapped another one or was cut off while writing
  misread  \* whether a write merged into nothing although it could have read more

vars == <<file, torn, step, key, next, latest, harmed, misread>>

TypeOK ==
  /\ file \in Doc
  /\ torn \in BOOLEAN
  /\ step \in [Writer -> {"idle", "merged", "opened"}]
  /\ key \in [Writer -> Key]
  /\ next \in [Writer -> Doc]
  /\ latest \in Doc
  /\ harmed \in BOOLEAN /\ misread \in BOOLEAN

Init ==
  /\ file = Empty /\ torn = FALSE
  /\ step = [w \in Writer |-> "idle"]
  /\ key = [w \in Writer |-> CHOOSE k \in Key : TRUE]
  /\ next = [w \in Writer |-> Empty]
  /\ latest = Empty
  /\ harmed = FALSE /\ misread = FALSE

-----------------------------------------------------------------------------
\* Faulty variant: the new settings replace the old ones.
MergedNot(old, k, v) == [Empty EXCEPT ![k] = v]

\* Faulty variant: the whole document is put into the setting.
MergedInside(old, k, v) == [old EXCEPT ![k] = [old EXCEPT ![k] = v]]

\* { ...oldSettings, ...settings } for settings = { k: v }.
Merged(old, k, v) == [old EXCEPT ![k] = v]

\* What read() may return: whatever keeps the file from being read (too many open
\* files, no permission, an I/O error) or parsed counts as no settings.  The comment
\* on read() speaks of the last known settings, but nothing remembers them.
Read == IF torn THEN {Empty} ELSE {file, Empty}

\* write({ k: v }) begins, reads the file and merges.
Begin(w, k, v) ==
  /\ step[w] = "idle"
  /\ step' = [step EXCEPT ![w] = "merged"]
  /\ key' = [key EXCEPT ![w] = k]
  /\ \E old \in Read :
       /\ next' = [next EXCEPT ![w] = Merged(old, k, v)]
       /\ misread' = (misread \/ old # file)
  /\ harmed' = (harmed \/ \E u \in Writer : step[u] # "idle")
  /\ UNCHANGED <<file, torn, latest>>

\* writeFile opens the file and truncates it.
Open(w) ==
  /\ step[w] = "merged"
  /\ step' = [step EXCEPT ![w] = "opened"]
  /\ file' = Empty /\ torn' = FALSE
  /\ UNCHANGED <<key, next, latest, harmed, misread>>

\* Faulty variant: the document is written where another write left off.
WrittenAfter(doc) ==
  /\ file' = Empty /\ torn' = TRUE

\* The document is written from the start of the file.  If another one was put
\* there since this write truncated the file, and is longer, its end remains.
Written(doc) ==
  \/ file' = doc /\ torn' = FALSE
  \/ /\ torn \/ file \notin {Empty, doc}
     /\ file' = Empty /\ torn' = TRUE

\* writeFile writes the document, and write() returns.
Fill(w) ==
  /\ step[w] = "opened"
  /\ step' = [step EXCEPT ![w] = "idle"]
  /\ next' = [next EXCEPT ![w] = Empty]
  /\ Written(next[w])
  /\ latest' = [latest EXCEPT ![key[w]] = next[w][key[w]]]
  /\ UNCHANGED <<key, harmed, misread>>

\* writeFile fails to open or to write the file: a warning is all there is.
Fail(w) ==
  /\ step[w] # "idle"
  /\ step' = [step EXCEPT ![w] = "idle"]
  /\ next' = [next EXCEPT ![w] = Empty]
  /\ harmed' = (harmed \/ step[w] = "opened")
  /\ UNCHANGED <<file, torn, key, latest, misread>>

\* Process s ends in the middle of whatever it does, and may be started again.
Crash(s) ==
  /\ \E c \in Call : step[<<s, c>>] # "idle"
  /\ step' = [w \in Writer |-> IF w[1] = s THEN "idle" ELSE step[w]]
  /\ next' = [w \in Writer |-> IF w[1] = s THEN Empty ELSE next[w]]
  /\ harmed' = (harmed \/ \E c \in Call : step[<<s, c>>] = "opened")
  /\ UNCHANGED <<file, torn, key, latest, misread>>

Next ==
  \/ \E w \in Writer :
       \/ \E k \in Key, v \in Value : Begin(w, k, v)
       \/ Open(w) \/ Fill(w) \/ Fail(w)
  \/ \E s \in Server : Crash(s)

Spec == Init /\ [][Next]_vars

-----------------------------------------------------------------------------
Quiescent == \A w \in Writer : step[w] = "idle"

\* As long as no two writes overlap, none is cut off while it writes and none fails
\* to read a file that is there, the file holds what every setting was last written
\* to, although each write only names one of them: the merge of write() loses and
\* revives nothing.  (A lone write that cannot read the file drops what is in it.)
SequentialWritesMerge ==
  ~harmed /\ ~misread /\ Quiescent => ~torn /\ file = latest

\* The file is only unreadable if two writes overlapped or one was cut off; a
\* reader that comes between the truncation and the end of a write finds no
\* settings, but never half of them.
TornOnlyByOverlap == torn => harmed

\* settings.ts says that write() writes the settings "combined with current
\* settings": a write leaves the other settings at their latest values, at least if
\* it can read them.
WritesCombine ==
  [][\A w \in Writer :
       ~misread /\ step[w] = "opened" /\ latest' # latest /\ step'[w] = "idle"
         => \A k \in Key \ {key[w]} : file'[k] = latest[k]]_vars
=============================================================================
