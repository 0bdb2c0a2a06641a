----------------------------- MODULE FdiskScript -----------------------------
(***************************************************************************)
(* The libfdisk script object (src/unnamed/part_001, the "script" section) *)
(* and the reference-counted objects around it: the script itself, the     *)
(* partition table it holds, and the fdisk context that holds a script and *)
(* is held by every script.                                                *)
(*                                                                         *)
(* The library is single-threaded: every API call is one atomic step.     *)
(* What is hard is the ORDER of reference operations inside a call         *)
(* (fdisk_set_script unrefs the old script before it refs the new one,     *)
(* fdisk_apply_script refs the old script around a temporary switch) and   *)
(* long sequences of legal calls by an application.                        *)
(*                                                                         *)
(* The heap is three variables: scr (script objects), tbl (table objects)  *)
(* and cxt (the one context).  Every C function is a pure operator from a  *)
(* heap record H to a heap record, so that a call that runs several of     *)
(* them in sequence is their composition, exactly in the code's order.     *)
(***************************************************************************)
EXTENDS Integers, FiniteSets, Sequences, SequencesExt

CONSTANTS
  Scripts,      \* addresses a script may be allocated at
  Tables,       \* addresses a partition table may be allocated at
  Labels,       \* names of the label drivers of the context ("dos", "gpt")
  HeaderNames,  \* header names an application may pass (any case)
  CaseFold,     \* CaseFold[n]: the lower-case form of n (for strcasecmp)
  Data,         \* header values an application may pass
  NULL,
  MaxRef,       \* bound on any reference count
  Borrowed      \* may the application pass fdisk_get_script(cxt) back in?

ASSUME "label" \in HeaderNames /\ CaseFold \in [HeaderNames \cup {"unit"} -> STRING]
ASSUME MaxRef \in Nat \ {0} /\ Borrowed \in BOOLEAN

VARIABLES
  scr,      \* scr[s]: [st, ref, hdr, label, table] of the script at s
  tbl,      \* tbl[t]: [st, ref] of the table at t
  cxt,      \* [script, label, ref]: cxt->script, cxt->label, refcount
  held,     \* held[s]: references to s the application owns
  heldTbl   \* heldTbl[t]: references to t the application owns

vars == <<scr, tbl, cxt, held, heldTbl>>

Status == {"unused", "live", "freed"}
\* Every name a header can have: the application's and "unit", which
\* fdisk_script_read_context writes.
Names == HeaderNames \cup {"unit"}
Value == Data \cup Labels \cup {"sectors"}

H == [scr |-> scr, tbl |-> tbl, cxt |-> cxt]

Store(h) == scr' = h.scr /\ tbl' = h.tbl /\ cxt' = h.cxt

LiveScripts == {s \in Scripts : scr[s].st = "live"}

(***************************************************************************)
(* Lookups.                                                                *)
(***************************************************************************)
\* script_get_header: first header whose name matches case-insensitively.
script_get_header(h, s, name) ==
  SelectInSeq(h.scr[s].hdr, LAMBDA e : CaseFold[e[1]] = CaseFold[name])

\* fdisk_script_get_header: the data of that header, or NULL.
fdisk_script_get_header(h, s, name) ==
  LET i == script_get_header(h, s, name)
  IN  IF i = 0 THEN NULL ELSE h.scr[s].hdr[i][2]

\* fdisk_get_label(cxt, name): the current label for NULL, else by name.
fdisk_get_label(h, name) ==
  IF name = NULL THEN h.cxt.label
  ELSE IF name \in Labels THEN name ELSE NULL

(***************************************************************************)
(* Reference operations, as the code performs them.                        *)
(***************************************************************************)
fdisk_ref_script(h, s) ==
  IF s = NULL THEN h ELSE [h EXCEPT !.scr[s].ref = @ + 1]

fdisk_ref_table(h, t) ==
  IF t = NULL THEN h ELSE [h EXCEPT !.tbl[t].ref = @ + 1]

fdisk_unref_table(h, t) ==
  IF t = NULL THEN h
  ELSE [h EXCEPT !.tbl[t] = [st  |-> IF @.ref - 1 <= 0 THEN "freed" ELSE @.st,
                             ref |-> @.ref - 1]]

\* Mutant: fdisk_unref_script that drops the table reference on every
\* unref, not only on the last.
UnrefScriptAlwaysTable(h, s) ==
  IF s = NULL THEN h
  ELSE IF h.scr[s].ref - 1 > 0
       THEN fdisk_unref_table([h EXCEPT !.scr[s].ref = @ - 1], h.scr[s].table)
  ELSE fdisk_unref_table(
         [h EXCEPT !.scr[s] = [@ EXCEPT !.ref = @ - 1, !.hdr = <<>>,
                                        !.st = "freed"],
                   !.cxt.ref = @ - 1],
         h.scr[s].table)

\* fdisk_unref_script: on zero, reset (drop headers), unref the context and
\* the table, free.
fdisk_unref_script(h, s) ==
  IF s = NULL THEN h
  ELSE IF h.scr[s].ref - 1 > 0 THEN [h EXCEPT !.scr[s].ref = @ - 1]
  ELSE fdisk_unref_table(
         [h EXCEPT !.scr[s] = [@ EXCEPT !.ref = @ - 1, !.hdr = <<>>,
                                        !.st = "freed"],
                   !.cxt.ref = @ - 1],
         h.scr[s].table)

\* Mutant: fdisk_set_script that forgets to unref the previous script.
SetScriptKeepsOld(h, dp) ==
  fdisk_ref_script([h EXCEPT !.cxt.script = dp], dp)

\* fdisk_set_script: unref the old script first, then ref the new one.
fdisk_set_script(h, dp) ==
  LET h1 == IF h.cxt.script # NULL THEN fdisk_unref_script(h, h.cxt.script)
                                    ELSE h
  IN  fdisk_ref_script([h1 EXCEPT !.cxt.script = dp], dp)

\* Mutant: fdisk_script_set_table with unref and ref swapped.
SetTableUnrefFirst(h, s, t) ==
  LET h1 == fdisk_ref_table(fdisk_unref_table(h, h.scr[s].table), t)
  IN  [h1 EXCEPT !.scr[s].table = t]

\* fdisk_script_set_table: ref the new table, unref the old, store.
fdisk_script_set_table(h, s, t) ==
  LET h1 == fdisk_unref_table(fdisk_ref_table(h, t), h.scr[s].table)
  IN  [h1 EXCEPT !.scr[s].table = t]

\* fdisk_script_set_header: remove (data NULL), append, or update in place.
\* Only the append and update paths drop the cached label, and only when
\* the name is exactly "label".
fdisk_script_set_header(h, s, name, data) ==
  LET i   == script_get_header(h, s, name)
      hdr == h.scr[s].hdr
  IN  IF i = 0 /\ data = NULL THEN h
      ELSE IF data = NULL THEN [h EXCEPT !.scr[s].hdr = RemoveAt(hdr, i)]
      ELSE [h EXCEPT
              !.scr[s].hdr   = IF i = 0 THEN Append(hdr, <<name, data>>)
                               ELSE [hdr EXCEPT ![i][2] = data],
              !.scr[s].label = IF name = "label" THEN NULL ELSE @]

\* A fresh script or table object (calloc + refcount 1).
NewScriptObj == [st |-> "live", ref |-> 1, hdr |-> <<>>, label |-> NULL,
                 table |-> NULL]
NewTableObj == [st |-> "live", ref |-> 1]

(***************************************************************************)
(* Calls of the application.  It only passes objects it holds a reference *)
(* to, except that with Borrowed it may pass back fdisk_get_script(cxt),  *)
(* a pointer it does not own (the API hands it out without a reference).  *)
(***************************************************************************)
HeldScripts == {s \in Scripts : held[s] > 0}
HeldTables == {t \in Tables : heldTbl[t] > 0}

Init ==
  /\ scr = [s \in Scripts |-> [st |-> "unused", ref |-> 0, hdr |-> <<>>,
                               label |-> NULL, table |-> NULL]]
  /\ tbl = [t \in Tables |-> [st |-> "unused", ref |-> 0]]
  /\ cxt \in [script : {NULL}, label : Labels \cup {NULL}, ref : {1}]
  /\ held = [s \in Scripts |-> 0]
  /\ heldTbl = [t \in Tables |-> 0]

\* fdisk_new_script on the heap: a new script at s that refs the context.
NewScriptH(h, s) == [h EXCEPT !.scr[s] = NewScriptObj, !.cxt.ref = @ + 1]

fdisk_new_script ==
  \E s \in Scripts :
    /\ scr[s].st = "unused"
    /\ Store(NewScriptH(H, s))
    /\ held' = [held EXCEPT ![s] = 1]
    /\ UNCHANGED heldTbl

\* fdisk_script_read_file on the fresh script s, as FdiskScriptReader
\* models its loop: the first content line allocates the table at t
\* (-ENOMEM when t is NULL: no address is free); the header lines before
\* the first partition set "label" (to a label the context knows, lb) and
\* "unit" (to "sectors"); a bad line may then end the read with an error
\* (ok FALSE).  Result: the heap and whether the read succeeded.
ReadFileH(h, s, content, t, lb, unit, ok) ==
  LET h1 == [h EXCEPT !.tbl[t] = NewTableObj, !.scr[s].table = t]
      h2 == IF lb = NULL THEN h1 ELSE fdisk_script_set_header(h1, s, "label", lb)
      h3 == IF unit THEN fdisk_script_set_header(h2, s, "unit", "sectors") ELSE h2
  IN  CASE ~content  -> [h |-> h, ok |-> ok]
        [] t = NULL  -> [h |-> h, ok |-> FALSE]
        [] OTHER     -> [h |-> h3, ok |-> ok]

\* Mutant: fdisk_new_script_from_file that returns NULL on a failed read
\* without dropping the script.
FromFileNoUnref(s, r) ==
  IF r.ok THEN /\ Store(r.h)
               /\ held' = [held EXCEPT ![s] = 1]
          ELSE /\ Store(r.h)
               /\ UNCHANGED held

\* The end of fdisk_new_script_from_file: the script is returned to the
\* caller when the read succeeded, else unreferenced (which resets it,
\* frees the table the read allocated and drops the context reference).
FromFileResult(s, r) ==
  IF r.ok THEN /\ Store(r.h)
               /\ held' = [held EXCEPT ![s] = 1]
          ELSE /\ Store(fdisk_unref_script(r.h, s))
               /\ UNCHANGED held

\* fdisk_new_script_from_file: new script, read the file into it, drop
\* it on error.  A failed fopen or calloc changes nothing and is left out.
fdisk_new_script_from_file ==
  LET fresh == {t \in Tables : tbl[t].st = "unused"} IN
  \E s \in Scripts, content \in BOOLEAN, ok \in BOOLEAN, unit \in BOOLEAN,
     lb \in Labels \cup {NULL},
     t \in IF fresh = {} THEN {NULL} ELSE fresh :
    /\ scr[s].st = "unused"
    /\ (lb # NULL \/ unit) => content
    /\ FromFileResult(s, ReadFileH(NewScriptH(H, s), s, content, t, lb, unit, ok))
    /\ UNCHANGED heldTbl

RefScript(s) ==
  /\ scr[s].ref < MaxRef
  /\ Store(fdisk_ref_script(H, s))
  /\ held' = [held EXCEPT ![s] = @ + 1]
  /\ UNCHANGED heldTbl

UnrefScript(s) ==
  /\ Store(fdisk_unref_script(H, s))
  /\ held' = [held EXCEPT ![s] = @ - 1]
  /\ UNCHANGED heldTbl

SetHeader(s, name, data) ==
  /\ Store(fdisk_script_set_header(H, s, name, data))
  /\ UNCHANGED <<held, heldTbl>>

\* script_get_label, as run by the "type=" parsers and the script writers:
\* fill the cache from the "label" header (or the current label).
script_get_label(s) ==
  /\ scr[s].label = NULL
  /\ scr' = [scr EXCEPT ![s].label =
               fdisk_get_label(H, fdisk_script_get_header(H, s, "label"))]
  /\ UNCHANGED <<tbl, cxt, held, heldTbl>>

\* fdisk_script_get_table: allocate a table owned by the script if none.
fdisk_script_get_table(s) ==
  /\ scr[s].table = NULL
  /\ \E t \in Tables :
       /\ tbl[t].st = "unused"
       /\ tbl' = [tbl EXCEPT ![t] = NewTableObj]
       /\ scr' = [scr EXCEPT ![s].table = t]
  /\ UNCHANGED <<cxt, held, heldTbl>>

SetTable(s, t) ==
  /\ t # NULL => tbl[t].ref < MaxRef
  /\ Store(fdisk_script_set_table(H, s, t))
  /\ UNCHANGED <<held, heldTbl>>

fdisk_new_table ==
  \E t \in Tables :
    /\ tbl[t].st = "unused"
    /\ tbl' = [tbl EXCEPT ![t] = NewTableObj]
    /\ heldTbl' = [heldTbl EXCEPT ![t] = 1]
    /\ UNCHANGED <<scr, cxt, held>>

\* fdisk_ref_table on a table the application holds or got from
\* fdisk_script_get_table of a script it holds.
RefTable(t) ==
  /\ tbl[t].ref < MaxRef
  /\ Store(fdisk_ref_table(H, t))
  /\ heldTbl' = [heldTbl EXCEPT ![t] = @ + 1]
  /\ UNCHANGED held

UnrefTable(t) ==
  /\ Store(fdisk_unref_table(H, t))
  /\ heldTbl' = [heldTbl EXCEPT ![t] = @ - 1]
  /\ UNCHANGED held

SetScript(dp) ==
  /\ dp # NULL => scr[dp].ref < MaxRef
  /\ Store(fdisk_set_script(H, dp))
  /\ UNCHANGED <<held, heldTbl>>

\* fdisk_create_disklabel(cxt, name) as seen from here: an unknown name
\* fails and leaves cxt->label; a known one switches to it, unless the
\* label driver's create fails first.
CreateOutcomes(h, name) ==
  IF name = NULL \/ fdisk_get_label(h, name) = NULL THEN {h.cxt.label}
  ELSE {h.cxt.label, fdisk_get_label(h, name)}

\* fdisk_apply_script_headers: make dp the context's script, then create
\* the label named by its "label" header (lb: the label that results).
fdisk_apply_script_headers(h, dp, lb) ==
  [fdisk_set_script(h, dp) EXCEPT !.cxt.label = lb]

\* fdisk_apply_script: ref the old script, apply dp's headers, put the old
\* script back, drop the extra reference.
ApplyScript(dp) ==
  LET old  == cxt.script
      name == fdisk_script_get_header(fdisk_set_script(H, dp), dp, "label")
  IN  /\ scr[dp].ref < MaxRef
      /\ old # NULL => scr[old].ref < MaxRef
      /\ \E lb \in CreateOutcomes(H, name) :
           LET h1 == fdisk_apply_script_headers(fdisk_ref_script(H, old), dp, lb)
           IN  Store(fdisk_unref_script(fdisk_set_script(h1, old), old))
      /\ UNCHANGED <<held, heldTbl>>

\* fdisk_script_read_context(dp, NULL): drop the headers, fail if the
\* context has no label, get (or allocate) the table, write the headers.
ReadContext(dp) ==
  LET h1    == [H EXCEPT !.scr[dp].hdr = <<>>]
      fresh == {t \in Tables : tbl[t].st = "unused"}
      Fill(h) == fdisk_script_set_header(
                   fdisk_script_set_header(h, dp, "label", cxt.label),
                   dp, "unit", "sectors")
  IN  /\ \/ cxt.label = NULL /\ Store(h1)
         \/ /\ cxt.label # NULL
            /\ scr[dp].table # NULL
            /\ Store(Fill(h1))
         \/ /\ cxt.label # NULL
            /\ scr[dp].table = NULL
            /\ fresh = {}
            /\ Store(h1)
         \/ /\ cxt.label # NULL
            /\ scr[dp].table = NULL
            /\ \E t \in fresh :
                 Store(Fill([h1 EXCEPT !.tbl[t] = NewTableObj,
                                       !.scr[dp].table = t]))
      /\ UNCHANGED <<held, heldTbl>>

\* Tables the application may pass: its own, or one it got from
\* fdisk_script_get_table of a script it holds (valid while that script
\* holds it; fdisk_script_set_table takes its own reference).
TableArgs == HeldTables \cup {NULL} \cup
               {scr[s].table : s \in HeldScripts}

ScriptArgs == HeldScripts \cup {NULL} \cup
                (IF Borrowed /\ cxt.script # NULL THEN {cxt.script} ELSE {})

Next ==
  \/ fdisk_new_script
  \/ fdisk_new_script_from_file
  \/ fdisk_new_table
  \/ \E s \in HeldScripts :
       \/ RefScript(s)
       \/ UnrefScript(s)
       \/ script_get_label(s)
       \/ fdisk_script_get_table(s)
       \/ ApplyScript(s)
       \/ ReadContext(s)
       \/ \E n \in HeaderNames, d \in Data \cup {NULL} : SetHeader(s, n, d)
       \/ \E t \in TableArgs : SetTable(s, t)
       \/ scr[s].table # NULL /\ RefTable(scr[s].table)
  \/ \E t \in HeldTables : RefTable(t) \/ UnrefTable(t)
  \/ \E dp \in ScriptArgs : SetScript(dp)

Spec == Init /\ [][Next]_vars

-----------------------------------------------------------------------------
TypeOK ==
  /\ scr \in [Scripts -> [st : Status, ref : 0..MaxRef + 1,
                          hdr : Seq(Names \X Value),
                          label : Labels \cup {NULL},
                          table : Tables \cup {NULL}]]
  /\ tbl \in [Tables -> [st : Status, ref : 0..MaxRef + 1]]
  /\ cxt \in [script : Scripts \cup {NULL}, label : Labels \cup {NULL},
              ref : Nat]
  /\ held \in [Scripts -> Nat]
  /\ heldTbl \in [Tables -> Nat]

\* Who holds a reference: the application, the context (cxt->script) and,
\* for a table, every live script whose table it is.
ScriptHolders(s) == held[s] + (IF cxt.script = s THEN 1 ELSE 0)
TableHolders(t) ==
  heldTbl[t] + Cardinality({s \in LiveScripts : scr[s].table = t})

\* A script is live exactly while somebody holds it, and then its refcount
\* counts its holders; the context's refcount is 1 (the application's)
\* plus one per live script.  Violated by a use after free (cxt->script
\* left pointing at a freed script by fdisk_set_script/fdisk_apply_script)
\* and by a leaked or premature reference.
ScriptRefcountExact ==
  /\ \A s \in Scripts \ {s0 \in Scripts : scr[s0].st = "unused"} :
       /\ (scr[s].st = "live") = (ScriptHolders(s) > 0)
       /\ scr[s].st = "live" => scr[s].ref = ScriptHolders(s)
  /\ cxt.ref = 1 + Cardinality(LiveScripts)

\* The same for tables: fdisk_script_set_table, fdisk_script_get_table and
\* the release of the table when the last script reference goes.
TableRefcountExact ==
  \A t \in Tables \ {t0 \in Tables : tbl[t0].st = "unused"} :
    /\ (tbl[t].st = "live") = (TableHolders(t) > 0)
    /\ tbl[t].st = "live" => tbl[t].ref = TableHolders(t)

\* The label cached by script_get_label is the one the script's "label"
\* header names now (or the context's label when it has none):
\* fdisk_script_set_header is meant to drop the cache when the label changes.
LabelCacheCoherent ==
  \A s \in LiveScripts :
    scr[s].label # NULL =>
      scr[s].label = fdisk_get_label(H, fdisk_script_get_header(H, s, "label"))

=============================================================================
