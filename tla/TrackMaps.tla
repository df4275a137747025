------------------------------ MODULE TrackMaps ------------------------------
(* The map of one Track: an automatic image from the official source and a   *)
(* Manager's override.  Each is a file with a fixed name and a row that      *)
(* describes it, and no transaction spans the two.                           *)
EXTENDS Naturals

CONSTANTS
  Sizes,    \* images, by size; two images of one size are not told apart
  Uploads,  \* those that are uploaded
  Workers,  \* requests and schedulers that refresh, upload and reset
  Nothing

VARIABLES
  row,     \* what the database says of the two files
  disk,    \* the files
  change,  \* what a worker has read and written and has not committed
  torn     \* history: files that a crash or an overlap may have parted from the row

mapVars == <<row, disk, change, torn>>

Kinds == {"automatic", "manual"}
Row == [automatic : Sizes \cup {Nothing}, manual : Sizes \cup {Nothing},
        failed : BOOLEAN, due : BOOLEAN]
NewRow == [automatic |-> Nothing, manual |-> Nothing, failed |-> FALSE, due |-> TRUE]
Change == [kind : Kinds, read : Row \cup {Nothing}, after : Row \cup {Nothing},
           wrote : BOOLEAN, alone : BOOLEAN]

\* A null is no size, row or transaction.
ASSUME MapsAssumption ==
  /\ Sizes \subseteq Nat /\ Uploads \subseteq Sizes
  /\ Nothing \notin Nat \cup Row \cup Change

MapInit ==
  /\ \E upload \in Uploads \cup {Nothing} :  \* perhaps before the first check
       /\ disk = [k \in Kinds |-> IF k = "manual" THEN upload ELSE Nothing]
       /\ row = IF upload = Nothing THEN Nothing ELSE [NewRow EXCEPT !.manual = upload]
  /\ torn = {}
  /\ change = [w \in Workers |-> Nothing]

\* The type, dimensions and size that the row gives are the file's.
FullyValidMap(read, kind) == read # Nothing /\ read[kind] # Nothing /\ disk[kind] = read[kind]
EffectiveMap ==
  IF row # Nothing /\ row.manual # Nothing THEN FullyValidMap(row, "manual")
  ELSE FullyValidMap(row, "automatic")

MapStatus ==
  IF row = Nothing THEN "UNCHECKED"
  ELSE IF row.manual # Nothing
       THEN IF EffectiveMap THEN "MANUAL_OVERRIDE" ELSE "MISSING_MANUAL_FILE"
  ELSE IF EffectiveMap THEN IF row.failed THEN "SOURCE_FAILED_RETAINED" ELSE "AVAILABLE"
  ELSE IF row.automatic # Nothing THEN "MISSING_FILE"
  ELSE IF row.failed THEN "SOURCE_FAILED" ELSE "MISSING"

MapRefreshDue == IF row = Nothing THEN TRUE ELSE row.due

Others(w, kind) == {v \in Workers \ {w} : change[v] # Nothing /\ change[v].kind = kind}
Began(w, kind, after, wrote) ==
  /\ change' = [v \in Workers |->
       IF v = w THEN [kind |-> kind, read |-> row, after |-> after, wrote |-> wrote,
                      alone |-> Others(w, kind) = {}]
       ELSE IF v \in Others(w, kind) THEN [change[v] EXCEPT !.alone = FALSE] ELSE change[v]]
  /\ torn' = IF Others(w, kind) = {} THEN torn ELSE torn \cup {kind}

(***************************************************************************)
(* The automatic map: the row is read, the source asked, the file replaced *)
(* and, with the rest of the transaction, the row committed.               *)
(***************************************************************************)
RefreshBegin(w) ==
  /\ change[w] = Nothing
  /\ Began(w, "automatic", Nothing, FALSE)
  /\ UNCHANGED <<row, disk>>

KeptUnread(read, size) == read # Nothing /\ read.automatic # Nothing /\ read.automatic > size
KeptImage(read, size) == FullyValidMap(read, "automatic") /\ read.automatic > size

RefreshAutomaticMap(w) ==
  /\ change[w] # Nothing /\ change[w].kind = "automatic" /\ change[w].after = Nothing
  /\ LET before  == IF change[w].read = Nothing THEN NewRow ELSE change[w].read
         checked == [before EXCEPT !.due = FALSE, !.failed = FALSE]
     IN  \/ /\ change' = [change EXCEPT ![w].after = [checked EXCEPT !.failed = TRUE]]
            /\ UNCHANGED disk
         \/ \E size \in Sizes :
              IF KeptImage(change[w].read, size)
              THEN /\ change' = [change EXCEPT ![w].after = checked]
                   /\ UNCHANGED disk
              ELSE /\ disk' = [disk EXCEPT !.automatic = size]
                   /\ change' = [change EXCEPT ![w].wrote = TRUE,
                                               ![w].after = [checked EXCEPT !.automatic = size]]
  /\ UNCHANGED <<row, torn>>

\* Attributes that the transaction left as it read them are not written.
Overwritten(read, after) ==
  IF row = Nothing THEN after
  ELSE [f \in DOMAIN row |-> IF after[f] = read[f] THEN row[f] ELSE after[f]]

\* Two first refreshes or uploads insert the same row: one of them is refused.
InsertRefused(w) == change[w].read = Nothing /\ row # Nothing

MapCommit(w) ==
  /\ change[w] # Nothing /\ change[w].after # Nothing /\ ~InsertRefused(w)
  /\ LET done == Overwritten(change[w].read, change[w].after)
         sound == change[w].alone /\ ~(change[w].kind = "automatic" /\ change[w].after.failed)
     IN  /\ row' = IF change[w].kind = "automatic" THEN [done EXCEPT !.due = FALSE] ELSE done
         /\ torn' = IF sound THEN torn \ {change[w].kind} ELSE torn
  /\ change' = [change EXCEPT ![w] = Nothing]
  /\ UNCHANGED disk

\* A crash or a refused commit: what was written to disk stays.
MapRollback(w) ==
  /\ torn' = IF change[w] # Nothing /\ change[w].wrote THEN torn \cup {change[w].kind} ELSE torn
  /\ change' = [change EXCEPT ![w] = Nothing]
  /\ UNCHANGED <<row, disk>>

(***************************************************************************)
(* The override.                                                           *)
(***************************************************************************)
SaveManualMap(w, size) ==
  /\ change[w] = Nothing
  /\ disk' = [disk EXCEPT !.manual = size]
  /\ Began(w, "manual", [(IF row = Nothing THEN NewRow ELSE row) EXCEPT !.manual = size], TRUE)
  /\ UNCHANGED row

\* The reset is committed before the file is removed.
ResetManualMap(w) ==
  /\ change[w] = Nothing /\ row # Nothing /\ row.manual # Nothing
  /\ row' = [row EXCEPT !.manual = Nothing]
  /\ IF disk.manual # Nothing THEN Began(w, "manual", Nothing, FALSE) ELSE UNCHANGED <<change, torn>>
  /\ UNCHANGED disk

Unlink(w) ==
  /\ change[w] # Nothing /\ change[w].kind = "manual" /\ change[w].after = Nothing
  /\ disk' = [disk EXCEPT !.manual = Nothing]
  /\ change' = [change EXCEPT ![w] = Nothing]
  /\ UNCHANGED <<row, torn>>

\* A day after a failure and 90 days after a success.
CheckAgain ==
  /\ row # Nothing /\ ~row.due
  /\ row' = [row EXCEPT !.due = TRUE]
  /\ UNCHANGED <<disk, change, torn>>

(***************************************************************************)
(* Properties.                                                             *)
(***************************************************************************)
\* The file of a map is the one that its row describes, through failures of the
\* source, smaller images, uploads and resets; and if a crash or an overlap parted
\* them, the next check that finds an image puts that right.
MapsWhole ==
  \A kind \in Kinds \ torn :
    row # Nothing /\ row[kind] # Nothing /\ (\A w \in Workers : change[w] = Nothing \/ change[w].kind # kind) =>
      FullyValidMap(row, kind)

\* Known limit: two uploads, or an upload and the end of a reset, leave an
\* override without its file, and nothing but a Manager puts that right.
ManualFilePresent ==
  (\A w \in Workers : change[w] = Nothing) => MapStatus # "MISSING_MANUAL_FILE"
=============================================================================
