-------------------------- MODULE FdiskScriptReader --------------------------
(***************************************************************************)
(* Reading an sfdisk script into a script object: fdisk_script_read_file, *)
(* fdisk_script_read_line and fdisk_script_read_buffer with the header     *)
(* parser (src/unnamed/part_001).                                          *)
(*                                                                         *)
(* A file is a sequence of lines.  A line is abstracted to its KIND, the   *)
(* one fact about its text the parsers act on, and whether it ends in a    *)
(* newline (only the last line may not).  A "long" line does not fit the   *)
(* BUFSIZ buffer of fdisk_script_read_file.  The reader's loop is modelled *)
(* one fgets at a time, with the stdio end-of-file indicator as a         *)
(* variable, because read_file's loop is driven by feof().                 *)
(***************************************************************************)
EXTENDS Integers, Sequences

CONSTANTS
  Kinds,        \* the line kinds files are made of (a subset of AllKinds)
  MaxLines,     \* longest file
  FinalNewline  \* TRUE: every file ends with a newline

\* Return codes.
EINVAL == -22
ENOTSUP == -95

\* Line kinds.  Header kinds are lines that is_header_line accepts
\* ("<name>: <value>", no '=').
Skipped == {"blank", "comment"}
HeaderKinds == {"hdr_label",          \* label: <known label>
                "hdr_label_unknown",  \* label: <no such label>
                "hdr_unit",           \* unit: sectors
                "hdr_unit_bad",       \* unit: <anything else>
                "hdr_other",          \* a name not in supported[]
                "hdr_novalue"}        \* "<name>:" and blanks only
\* Partition lines in the dump format ("<dev>: start=.., size=.., ...")
\* and the simple format ("<start>, <size>, <type>, <bootable>").
NameValKinds == {"nameval", "nameval_bad"}
CommaKinds == {"commas", "commas_bad"}
PartKinds == NameValKinds \cup CommaKinds

\* The partition line parses: every field's start/size/type/flag parser
\* accepts it, so the partition is added to the table.
PartitionParses(k) == k \in {"nameval", "commas"}
AllKinds == Skipped \cup HeaderKinds \cup PartKinds \cup {"long"}

ASSUME Kinds \subseteq AllKinds /\ MaxLines \in Nat /\ FinalNewline \in BOOLEAN

Line == [kind : Kinds, nl : BOOLEAN]

\* The files: at most MaxLines lines, all but the last newline-terminated.
Files ==
  {f \in UNION {[1..n -> Line] : n \in 0..MaxLines} :
     \A i \in DOMAIN f : f[i].nl \/ (i = Len(f) /\ ~FinalNewline)}

VARIABLES
  file,     \* the input
  pos,      \* index of the next line fgets returns
  eof,      \* the stream's end-of-file indicator
  nlines,   \* dp->nlines
  headers,  \* names of the headers set (dp->headers)
  force,    \* dp->force_label
  table,    \* dp->table allocated
  parts,    \* partitions in dp->table
  rc,       \* rc of fdisk_script_read_file
  pc        \* "while": loop test, "line": in read_line, "ret", "done"

vars == <<file, pos, eof, nlines, headers, force, table, parts, rc, pc>>

(***************************************************************************)
(* parse_line_header: the effect of a header line on the headers, and its *)
(* return code.                                                            *)
(***************************************************************************)
parse_line_header(k) ==
  CASE k = "hdr_label"         -> [rc |-> 0, hdr |-> {"label"}, force |-> TRUE]
    [] k = "hdr_unit"          -> [rc |-> 0, hdr |-> {"unit"}, force |-> FALSE]
    [] k = "hdr_other"         -> [rc |-> ENOTSUP, hdr |-> {}, force |-> FALSE]
    [] OTHER                   -> [rc |-> EINVAL, hdr |-> {}, force |-> FALSE]

\* Mutant: read_buffer that parses header lines after partitions too.
ReadBufferAnyHeader(k) ==
  /\ table' = TRUE
  /\ IF k \in HeaderKinds
     THEN LET r == parse_line_header(k) IN
          /\ headers' = headers \cup r.hdr
          /\ force' = (force \/ r.force)
          /\ rc' = r.rc
          /\ UNCHANGED parts
     ELSE /\ rc' = IF PartitionParses(k) THEN 0 ELSE EINVAL
          /\ parts' = IF rc' = 0 THEN parts + 1 ELSE parts
          /\ UNCHANGED <<headers, force>>

\* fdisk_script_read_buffer on a content line: get the table, then parse
\* header lines only while the table is empty; any other line is a
\* partition, by name=value or by commas (a header-looking line then fails
\* to parse as a start value).
fdisk_script_read_buffer(k) ==
  /\ table' = TRUE
  /\ IF parts = 0 /\ k \in HeaderKinds
     THEN LET r == parse_line_header(k) IN
          /\ headers' = headers \cup r.hdr
          /\ force' = (force \/ r.force)
          /\ rc' = r.rc
          /\ UNCHANGED parts
     ELSE /\ rc' = IF PartitionParses(k) THEN 0 ELSE EINVAL
          /\ parts' = IF rc' = 0 THEN parts + 1 ELSE parts
          /\ UNCHANGED <<headers, force>>

Init ==
  /\ file \in Files
  /\ pos = 1
  /\ eof = FALSE
  /\ nlines = 0
  /\ headers = {}
  /\ force = FALSE
  /\ table = FALSE
  /\ parts = 0
  /\ rc = 1
  /\ pc = "while"

\* while (!feof(f)) { rc = read_line(); if (rc && rc != -ENOTSUP) break; }
ReadFileLoop ==
  /\ pc = "while"
  /\ pc' = IF eof THEN "ret" ELSE "line"
  /\ UNCHANGED <<file, pos, eof, nlines, headers, force, table, parts, rc>>

\* Mutant: dp->nlines incremented before the fgets() NULL check.
FgetsAtEofCounted ==
  /\ eof' = TRUE
  /\ rc' = 1
  /\ pc' = "ret"
  /\ nlines' = nlines + 1
  /\ UNCHANGED <<pos, headers, force, table, parts>>

\* fgets() returns NULL at the end of the stream and sets its end-of-file
\* indicator; read_line returns 1.
FgetsAtEof ==
  /\ eof' = TRUE
  /\ rc' = 1
  /\ pc' = "ret"
  /\ UNCHANGED <<pos, nlines, headers, force, table, parts>>

\* One fgets of fdisk_script_read_line's do-while loop.
\*  - nothing left: fgets returns NULL and sets the end-of-file indicator;
\*    read_line returns 1;
\*  - a line that does not fit the buffer: no '\n' and not at EOF: -EINVAL;
\*  - a line without '\n' at the end of the file sets the indicator;
\*  - blank and comment lines are skipped, the next is read;
\*  - any other line goes to fdisk_script_read_buffer.
\* Back in read_file, an rc other than 0 and -ENOTSUP ends the loop.
fdisk_script_read_line ==
  /\ pc = "line"
  /\ IF pos > Len(file)
     THEN FgetsAtEof
     ELSE LET l == file[pos] IN
          /\ pos' = pos + 1
          /\ nlines' = nlines + 1
          /\ eof' = (~l.nl /\ l.kind # "long")
          /\ CASE l.kind = "long" ->
                    /\ rc' = EINVAL
                    /\ pc' = "ret"
                    /\ UNCHANGED <<headers, force, table, parts>>
               [] l.kind \in Skipped ->
                    /\ pc' = "line"
                    /\ UNCHANGED <<rc, headers, force, table, parts>>
               [] OTHER ->
                    /\ fdisk_script_read_buffer(l.kind)
                    /\ pc' = IF rc' \in {0, ENOTSUP} THEN "while" ELSE "ret"
  /\ UNCHANGED file

\* if (rc == 1) rc = 0;  return rc;
ReadFileReturn ==
  /\ pc = "ret"
  /\ pc' = "done"
  /\ rc' = IF rc = 1 THEN 0 ELSE rc
  /\ UNCHANGED <<file, pos, eof, nlines, headers, force, table, parts>>

Next == ReadFileLoop \/ fdisk_script_read_line \/ ReadFileReturn

Spec == Init /\ [][Next]_vars

-----------------------------------------------------------------------------
TypeOK ==
  /\ file \in Files
  /\ pos \in 1..MaxLines + 1
  /\ eof \in BOOLEAN
  /\ nlines \in 0..MaxLines
  /\ headers \subseteq {"label", "unit"}
  /\ force \in BOOLEAN
  /\ table \in BOOLEAN
  /\ parts \in 0..MaxLines
  /\ rc \in {1, 0, EINVAL, ENOTSUP}
  /\ pc \in {"while", "line", "ret", "done"}

\* What the script format and the API documentation say reading a file
\* does: blank and comment lines are ignored; a line longer than the
\* buffer is an error; headers come before the first partition; an
\* unknown header is reported as -ENOTSUP, "usually safe to ignore", and
\* read_file ignores it; every other error stops reading and is returned.
\* Ref(f, i, p): the result of reading lines i.. with p partitions so far.
RECURSIVE Ref(_, _, _)
Ref(f, i, p) ==
  IF i > Len(f) THEN [rc |-> 0, parts |-> p]
  ELSE LET k == f[i].kind IN
       CASE k \in Skipped -> Ref(f, i + 1, p)
         [] k \in HeaderKinds /\ p = 0 ->
              IF parse_line_header(k).rc \in {0, ENOTSUP}
              THEN Ref(f, i + 1, p)
              ELSE [rc |-> parse_line_header(k).rc, parts |-> p]
         [] k \in {"nameval", "commas"} -> Ref(f, i + 1, p + 1)
         [] OTHER -> [rc |-> EINVAL, parts |-> p]

\* When fdisk_script_read_file returns, its return code and the partitions
\* it put in the table are those of the reference.  Violated when the
\* feof()-driven loop turns a skipped line or an ignored -ENOTSUP into
\* the result, or parses a line it should not.
ReadFileMatchesReference ==
  pc = "done" => [rc |-> rc, parts |-> parts] = Ref(file, 1, 0)

=============================================================================
