------------------------------ MODULE CodeIndex ------------------------------
(***************************************************************************)
(* The index of code structure (scripts/index-code.py, ai/code_intel): one *)
(* table of nodes, one of relationships.  A timer starts a full run, which *)
(* parses every file and adds what it found; incremental runs and runs for *)
(* one file replace the rows of a file, the former for files whose hash is *)
(* not that of the rows.  The unit is a oneshot service: one run at a      *)
(* time, which may die between any two writes, while files are edited,     *)
(* moved back to an earlier text (a checkout), broken and deleted.         *)
(***************************************************************************)
EXTENDS Naturals

CONSTANTS CodeFiles,
          Texts,        \* what a file may hold that can be parsed
          Absent, Broken,   \* no file; a text with a syntax error
          MaxCodeRuns   \* bound: runs

ASSUME CodeAssumption ==
    Absent \notin Texts /\ Broken \notin Texts /\ Absent # Broken /\ MaxCodeRuns \in Nat

Contents == Texts \cup {Absent, Broken}
CodeRows == [text : Texts, hash : Contents]
NoRow == [text |-> Absent, hash |-> Absent]

VARIABLES content,     \* the files
          nodes,      \* code_nodes: what each file's rows are of, and their file_hash
          links,      \* relationships: the texts that those of each file are of
          step,       \* how far the run is
          full,       \* a full run, or one that replaces
          pending,    \* files it still has to look at
          file,       \* the one it works on
          parsed,     \* what parse_file gave it
          codeRuns,   \* runs so far
          raced,      \* history: files changed between the reading of text and hash
          unlinked    \* history: files whose run died between nodes and relationships

codeVars == <<content, nodes, links, step, full, pending, file, parsed, codeRuns,
              raced, unlinked>>

NothingParsed == [f \in CodeFiles |-> NoRow]

CodeInit ==
    /\ content \in [CodeFiles -> Contents]
    /\ nodes = [f \in CodeFiles |-> {}]
    /\ links = [f \in CodeFiles |-> {}]
    /\ step = "idle"
    /\ full = FALSE
    /\ pending = {}
    /\ file \in CodeFiles
    /\ parsed = NothingParsed
    /\ codeRuns = 0
    /\ raced = {} /\ unlinked = {}

Change(f) ==
    /\ \E c \in Contents \ {content[f]} : content' = [content EXCEPT ![f] = c]
    /\ raced' = IF step = "hash" /\ file = f THEN raced \cup {f} ELSE raced
    /\ UNCHANGED <<nodes, links, step, full, pending, file, parsed, codeRuns, unlinked>>

Begin(whole, files) ==
    /\ step = "idle" /\ codeRuns < MaxCodeRuns
    /\ codeRuns' = codeRuns + 1
    /\ full' = whole
    /\ pending' = files
    /\ step' = IF whole THEN "next" ELSE "update"
    /\ UNCHANGED <<content, nodes, links, file, parsed, raced, unlinked>>

IndexProject == Begin(TRUE, CodeFiles)
IndexOne == \E f \in CodeFiles : Begin(FALSE, {f})

Existing == {f \in CodeFiles : content[f] # Absent}

\* The stored hash of a file is that of any of its rows, and there is none for any
\* when the table cannot be read; a file that no longer exists is not looked for.
\* With no file left "Index is up to date."
IndexChanged ==
    \/ \E changed \in SUBSET Existing :
          /\ \A f \in changed : nodes[f] # {} => \E row \in nodes[f] : row.hash # content[f]
          /\ \A f \in Existing \ changed : \E row \in nodes[f] : row.hash = content[f]
          /\ Begin(FALSE, changed)
    \/ Begin(FALSE, Existing)

\* update_incremental, file by file.  When the first deletion fails the second is
\* not tried, and the run goes on with what is left in the tables.
NodesDeleted(f) ==
    /\ nodes' = [nodes EXCEPT ![f] = {}]
    /\ unlinked' = unlinked \ {f}
    /\ raced' = raced \ {f}
    /\ UNCHANGED links

LinksDeleted(f) ==
    /\ links' = [links EXCEPT ![f] = {}]
    /\ UNCHANGED <<nodes, raced, unlinked>>

\* Mutant: the relationships are deleted first.
LinksFirst(f) == IF step = "update" THEN LinksDeleted(f) ELSE NodesDeleted(f)

NodesFirst(f) == IF step = "update" THEN NodesDeleted(f) ELSE LinksDeleted(f)

DeleteRows ==
    \/ /\ step = "update"
       /\ \E f \in pending : NodesFirst(f) /\ file' = f /\ pending' = pending \ {f}
       /\ step' = "unlink"
       /\ UNCHANGED <<content, full, parsed, codeRuns>>
    \/ /\ step = "unlink"
       /\ NodesFirst(file)
       /\ step' = "read"
       /\ UNCHANGED <<content, full, pending, file, parsed, codeRuns>>

DeletionFails ==
    /\ \/ /\ step = "update"
          /\ \E f \in pending : file' = f /\ pending' = pending \ {f}
       \/ step = "unlink" /\ UNCHANGED <<file, pending>>
    /\ step' = "read"
    /\ UNCHANGED <<content, nodes, links, full, parsed, codeRuns, raced, unlinked>>

\* parse_project takes the files one by one.
NextFile ==
    /\ step = "next"
    /\ \E f \in pending : file' = f /\ pending' = pending \ {f}
    /\ step' = "read"
    /\ UNCHANGED <<content, nodes, links, full, parsed, codeRuns, raced, unlinked>>

Looped == IF full THEN "next" ELSE "update"

\* parse_file: the text, and later the hash of what the file holds by then.
ReadText ==
    /\ step = "read"
    /\ IF content[file] \in Texts
         THEN /\ step' = "hash"
              /\ parsed' = [parsed EXCEPT ![file] = [text |-> content[file], hash |-> Absent]]
         ELSE /\ step' = Looped
              /\ UNCHANGED parsed
    /\ UNCHANGED <<content, nodes, links, full, pending, file, codeRuns, raced, unlinked>>

HashText ==
    /\ step = "hash"
    /\ parsed' = [parsed EXCEPT
                   ![file] = [text |-> parsed[file].text, hash |-> content[file]]]
    /\ step' = IF full THEN "next" ELSE "add"
    /\ UNCHANGED <<content, nodes, links, full, pending, file, codeRuns, raced, unlinked>>

\* index_project adds all files at once when the last was parsed; the other runs
\* add each file's rows as they come.
ReadyToAdd == step = "add" \/ (step = "next" /\ pending = {})

\* The module, its classes and functions; imports, calls and base classes.
Rows(f) == {row \in {parsed[f]} : row.text # Absent}
Relationships(f) == {row.text : row \in Rows(f)}

AddNodes ==
    /\ ReadyToAdd
    /\ nodes' = [f \in CodeFiles |-> nodes[f] \cup Rows(f)]
    /\ step' = "link"
    /\ UNCHANGED <<content, links, full, pending, file, parsed, codeRuns, raced, unlinked>>

AddLinks ==
    /\ step = "link"
    /\ links' = [f \in CodeFiles |-> links[f] \cup Relationships(f)]
    /\ parsed' = NothingParsed
    /\ step' = IF full THEN "idle" ELSE "update"
    /\ UNCHANGED <<content, nodes, full, pending, file, codeRuns, raced, unlinked>>

EndRun ==
    /\ step = "update" /\ pending = {}
    /\ step' = "idle"
    /\ UNCHANGED <<content, nodes, links, full, pending, file, parsed, codeRuns, raced, unlinked>>

\* Killed, or ended by a text that is no UTF-8 or a table that takes no rows.
CodeRunDies ==
    /\ step # "idle"
    /\ step' = "idle"
    /\ pending' = {}
    /\ parsed' = NothingParsed
    /\ unlinked' = IF step = "link" THEN unlinked \cup {f \in CodeFiles : Rows(f) # {}}
                                    ELSE unlinked
    /\ UNCHANGED <<content, nodes, links, full, file, codeRuns, raced>>

CodeNext ==
    \/ \E f \in CodeFiles : Change(f)
    \/ IndexProject \/ IndexOne \/ IndexChanged
    \/ DeleteRows \/ DeletionFails \/ NextFile \/ ReadText \/ HashText
    \/ AddNodes \/ AddLinks \/ EndRun \/ CodeRunDies

CodeSpec == CodeInit /\ [][CodeNext]_codeVars

-----------------------------------------------------------------------------

(* The variables keep their types.                                          *)
CodeTypeOK ==
    /\ content \in [CodeFiles -> Contents]
    /\ nodes \in [CodeFiles -> SUBSET CodeRows]
    /\ links \in [CodeFiles -> SUBSET Texts]
    /\ step \in {"idle", "next", "update", "unlink", "read", "hash", "add", "link"}
    /\ full \in BOOLEAN
    /\ pending \in SUBSET CodeFiles
    /\ file \in CodeFiles
    /\ parsed \in [CodeFiles -> [text : Texts \cup {Absent}, hash : Contents]]
    /\ codeRuns \in 0..MaxCodeRuns
    /\ {raced, unlinked} \subseteq SUBSET CodeFiles

(* An incremental run passes by a file whose hash a row has, so such a row  *)
(* must be of the file's present text and its relationships must be there,  *)
(* unless the run is about to add them, died just before that, or the file  *)
(* was changed between text and hash (index-code.py: "Index is up to        *)
(* date."; update_incremental, parse_file).                                 *)
PassedByIsIndexed ==
    \A f \in CodeFiles \ (raced \cup unlinked) : \A row \in nodes[f] :
        row.hash = content[f] =>
            /\ row.text = content[f]
            /\ content[f] \in links[f] \/ (step = "link" /\ row \in Rows(f))
=============================================================================
