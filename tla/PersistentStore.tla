---------------------------- MODULE PersistentStore ----------------------------
(***************************************************************************)
(* The on-disk cache of repeated-specification sessions:                   *)
(* PersistentSessionStore of econhdfe/data/persistent.py with its callers  *)
(* in econhdfe/sessions.py.  Several processes share one cache directory   *)
(* and one data file; a process may die between any two file operations,   *)
(* any cached file may be deleted at any time, and writes may fail.        *)
(*                                                                         *)
(* The directory is a function from file names to contents; os.replace     *)
(* makes the creation of a file one step.  The data file has an outcome    *)
(* column and an FE column.  A content is a member of Values, a signature  *)
(* the content it was taken from.                                          *)
(***************************************************************************)
EXTENDS Integers, Sequences, FiniteSets, Functions, TLC

CONSTANTS Procs,      \* processes with a session on the same data file
          Values,     \* contents a column may have
          Clusters,   \* cluster specifications, see ClusterType
          Setups,     \* the regimes that are explored, see SetupType
          MaxRewrites, MaxDeletes, MaxOpens, MaxFits   \* bounds

FileColumns == {"y", "fe"}
Contents == [FileColumns -> Values]
None == "none"

\* A cluster specification: its labels, and whether numpy can view the array as
\* bytes (an array of Python strings cannot be).
ClusterType == [labels : {"c1", "c2"}, hashable : BOOLEAN]
\* How sources are validated, and whether the file rests while a session is open.
SetupType == [validation : {"strict", "metadata"}, quiet : BOOLEAN]

ASSUME StoreAssumption ==
  /\ "none" \notin Values
  /\ Clusters \subseteq ClusterType
  /\ Setups \subseteq SetupType
  /\ {MaxRewrites, MaxDeletes, MaxOpens, MaxFits} \subseteq Nat

VARIABLES setup,    \* the regime, never changed
          history,  \* contents of the data file, the current one last
          disk,     \* the cache directory: file name -> content
          place,    \* per process: where its session is
          memo,     \* _source_hash_memo of the data source
          cluster,  \* cluster_spec of the session
          loaded,   \* the dataset: column -> [values, sig]
          call,     \* FE columns of the fit that runs
          lookedFor,  \* columns prepare_repeated_dataset has still to look up
          unfound,  \* columns it did not find
          fresh,    \* what it read for them from the data file
          snaps,    \* what it has so far
          saving,   \* column whose files it is writing
          within,   \* the partialled-out outcome
          returned, \* what the fit has returned
          bounds    \* deletions, sessions and fits so far

source == <<setup, history>>
lookup == <<lookedFor, unfound, fresh, snaps, saving>>
storeVars == <<source, disk, place, memo, cluster, loaded, call, lookup, within, returned, bounds>>

NoFiles == [n \in {} |-> None]
File == history[Len(history)]

StoreInit ==
  /\ setup \in Setups
  /\ history \in {<<c>> : c \in {[k \in FileColumns |-> v] : v \in Values}}
  /\ disk = NoFiles
  /\ place = [p \in Procs |-> "closed"]
  /\ memo = [p \in Procs |-> <<>>]
  /\ cluster \in [Procs -> Clusters]
  /\ loaded = [p \in Procs |-> NoFiles]
  /\ call = [p \in Procs |-> {}]
  /\ lookedFor = [p \in Procs |-> {}]
  /\ unfound = [p \in Procs |-> {}]
  /\ fresh = [p \in Procs |-> NoFiles]
  /\ snaps = [p \in Procs |-> NoFiles]
  /\ saving = [p \in Procs |-> None]
  /\ within = [p \in Procs |-> NoFiles]
  /\ returned = [p \in Procs |-> NoFiles]
  /\ bounds = [deletes |-> 0, opens |-> 0, fits |-> 0]

Step(v, p, x) == [v EXCEPT ![p] = x]
With(f, k, x) == [j \in DOMAIN f \cup {k} |-> IF j = k THEN x ELSE f[j]]
Go(p, where) == place' = Step(place, p, where)
Forget(p) == /\ lookedFor' = Step(lookedFor, p, {})
             /\ unfound' = Step(unfound, p, {})
             /\ fresh' = Step(fresh, p, NoFiles)
             /\ snaps' = Step(snaps, p, NoFiles)
             /\ saving' = Step(saving, p, None)
Exists(names) == names \subseteq DOMAIN disk
Put(name, content) == disk' = With(disk, name, content)
RemoveFile(name) == disk' = Restrict(disk, DOMAIN disk \ {name})

-----------------------------------------------------------------------------
\* File names.
\* strict: the bytes of the file; metadata: size, times and inode, new with each write.
Fingerprint_PathOnly == IF setup.validation = "strict" THEN <<history[1]>> ELSE <<1>>
Fingerprint == IF setup.validation = "strict" THEN <<File>> ELSE <<Len(history)>>

ColumnFile(part, fp, c) == <<part, fp, c>>
ColumnParts == {"values", "valid", "json"}

Signatures(p, cs) == [c \in cs |-> loaded[p][c].sig]
\* Key of a partialled-out column: what the FE entry was built from, and the column.
WithinKey(p) == <<call[p], Signatures(p, call[p]), loaded[p]["y"].sig>>

\* _persistent_external_descriptor of the cluster argument.
Descriptor(k) == IF k.hashable THEN k.labels ELSE "unsupported"
ResultKey_OutcomeOnly(p) == <<call[p], loaded[p]["y"].sig, Descriptor(cluster[p])>>
ResultKey(p) == <<call[p], Signatures(p, {"y"} \cup call[p]), Descriptor(cluster[p])>>

-----------------------------------------------------------------------------
\* Another program writes the data file.
Rewrite ==
  /\ Len(history) <= MaxRewrites
  /\ setup.quiet => \A p \in Procs : place[p] = "closed"
  /\ \E c \in Contents \ {File} : history' = Append(history, c)
  /\ UNCHANGED <<setup, disk, place, memo, cluster, loaded, call, lookup, within, returned, bounds>>

\* A cached file disappears: the cache is cleared, or its directory is deleted.
Delete(name) ==
  /\ bounds.deletes < MaxDeletes
  /\ name \in DOMAIN disk
  /\ RemoveFile(name)
  /\ bounds' = [bounds EXCEPT !.deletes = @ + 1]
  /\ UNCHANGED <<source, place, memo, cluster, loaded, call, lookup, within, returned>>

MemoAtOpen_Kept(p) == memo[p]
MemoAtOpen(p) == <<>>

\* A new session with its own store object.
Open(p) ==
  /\ place[p] = "closed"
  /\ bounds.opens < MaxOpens
  /\ bounds' = [bounds EXCEPT !.opens = @ + 1]
  /\ memo' = Step(memo, p, MemoAtOpen(p))
  /\ Go(p, "idle")
  /\ UNCHANGED <<source, disk, cluster, loaded, call, lookup, within, returned>>

\* The session ends, or its process dies at any point.
Close(p) ==
  /\ place[p] # "closed"
  /\ Go(p, "closed")
  /\ loaded' = Step(loaded, p, NoFiles)
  /\ Forget(p)
  /\ call' = Step(call, p, {})
  /\ within' = Step(within, p, NoFiles)
  /\ returned' = Step(returned, p, NoFiles)
  /\ UNCHANGED <<source, disk, memo, cluster, bounds>>

\* A fit starts; columns that no earlier fit used are fetched first, together with
\* all the others.  The source is fingerprinted once per session.
BeginFit(p) ==
  /\ place[p] = "idle"
  /\ bounds.fits < MaxFits
  /\ bounds' = [bounds EXCEPT !.fits = @ + 1]
  /\ \E absorb \in SUBSET {"fe"} :
       LET needed == {"y"} \cup absorb
       IN /\ call' = Step(call, p, absorb)
          /\ IF needed \subseteq DOMAIN loaded[p]
             THEN Go(p, "key") /\ UNCHANGED <<memo, lookup>>
             ELSE /\ memo' = Step(memo, p, IF memo[p] = <<>> THEN Fingerprint ELSE memo[p])
                  /\ lookedFor' = Step(lookedFor, p, needed \cup DOMAIN loaded[p])
                  /\ Go(p, "columns")
                  /\ UNCHANGED <<unfound, fresh, snaps, saving>>
  /\ UNCHANGED <<source, disk, cluster, loaded, within, returned>>

\* _load_column finds no complete column: what has just been read from the data
\* file serves instead, or the column is missing.
NotFound(p, c) ==
  IF c \in DOMAIN fresh[p]
  THEN snaps' = Step(snaps, p, With(snaps[p], c, [values |-> fresh[p][c], sig |-> fresh[p][c]]))
       /\ UNCHANGED unfound
  ELSE unfound' = Step(unfound, p, unfound[p] \cup {c}) /\ UNCHANGED snaps

\* _load_column: all three files exist, and the manifest is read ...
ReadManifest(p, c) ==
  /\ place[p] = "columns"
  /\ c \in lookedFor[p]
  /\ c \notin DOMAIN snaps[p]
  /\ IF Exists({ColumnFile(q, memo[p], c) : q \in ColumnParts})
     THEN /\ snaps' = Step(snaps, p, With(snaps[p], c,
                        [values |-> None, sig |-> disk[ColumnFile("json", memo[p], c)]]))
          /\ UNCHANGED <<lookedFor, unfound>>
     ELSE NotFound(p, c) /\ lookedFor' = Step(lookedFor, p, lookedFor[p] \ {c})
  /\ UNCHANGED <<source, disk, place, memo, cluster, loaded, call, fresh, saving, within,
                 returned, bounds>>

\* ... and then the arrays, if they are still there.
ReadArrays(p, c) ==
  /\ place[p] = "columns"
  /\ c \in lookedFor[p] \cap DOMAIN snaps[p]
  /\ lookedFor' = Step(lookedFor, p, lookedFor[p] \ {c})
  /\ IF Exists({ColumnFile("values", memo[p], c), ColumnFile("valid", memo[p], c)})
     THEN /\ snaps' = Step(snaps, p, With(snaps[p], c,
                        [values |-> disk[ColumnFile("values", memo[p], c)],
                         sig |-> snaps[p][c].sig]))
          /\ UNCHANGED unfound
     ELSE IF c \in DOMAIN fresh[p]
          THEN NotFound(p, c)
          ELSE /\ unfound' = Step(unfound, p, unfound[p] \cup {c})
               /\ snaps' = Step(snaps, p, Restrict(snaps[p], DOMAIN snaps[p] \ {c}))
  /\ UNCHANGED <<source, disk, place, memo, cluster, loaded, call, fresh, saving, within,
                 returned, bounds>>

LookedUp_NoArrays(p) == place[p] = "columns" /\ lookedFor[p] \subseteq DOMAIN snaps[p]
LookedUp(p) == place[p] = "columns" /\ lookedFor[p] = {}

\* materialize_required_data: the missing columns, as the file is now.
Materialize(p) ==
  /\ LookedUp(p)
  /\ unfound[p] # {}
  /\ fresh[p] = NoFiles
  /\ fresh' = Step(fresh, p, Restrict(File, unfound[p]))
  /\ UNCHANGED <<source, disk, place, memo, cluster, loaded, call, lookedFor, unfound, snaps,
                 saving, within, returned, bounds>>

\* _save_column writes values, bitmap and manifest of one missing column, and the
\* column is looked up again.  (The bitmap is written once more at the end, with
\* the same content.)
NextPart(part) == CASE part = "values" -> "valid" [] part = "valid" -> "json"
WriteColumn(p, c, part) ==
  /\ c \in unfound[p] \cap DOMAIN fresh[p]
  /\ \/ part = "values" /\ LookedUp(p)
     \/ part # "values" /\ place[p] = part /\ saving[p] = c
  /\ Put(ColumnFile(part, memo[p], c), fresh[p][c])
  /\ IF part = "json"
     THEN /\ Go(p, "columns")
          /\ saving' = Step(saving, p, None)
          /\ unfound' = Step(unfound, p, unfound[p] \ {c})
          /\ lookedFor' = Step(lookedFor, p, {c})
     ELSE /\ Go(p, NextPart(part))
          /\ saving' = Step(saving, p, c)
          /\ UNCHANGED <<unfound, lookedFor>>
  /\ UNCHANGED <<source, memo, cluster, loaded, call, fresh, snaps, within, returned, bounds>>

\* A value that has no safe representation is not saved; the fresh one is used.
KeepUnsaved(p, c) ==
  /\ LookedUp(p)
  /\ c \in unfound[p] \cap DOMAIN fresh[p]
  /\ unfound' = Step(unfound, p, unfound[p] \ {c})
  /\ snaps' = Step(snaps, p, With(snaps[p], c, [values |-> fresh[p][c], sig |-> fresh[p][c]]))
  /\ UNCHANGED <<source, disk, place, memo, cluster, loaded, call, lookedFor, fresh, saving, within,
                 returned, bounds>>

\* The new snapshot replaces the dataset, and what was derived from the old one goes.
InstallDataset(p) ==
  /\ LookedUp(p)
  /\ unfound[p] = {}
  /\ loaded' = Step(loaded, p, snaps[p])
  /\ Forget(p)
  /\ Go(p, "key")
  /\ UNCHANGED <<source, disk, memo, cluster, call, within, returned, bounds>>

\* load_result: a completed result is returned at once.
LookUpResult(p) ==
  /\ place[p] = "key"
  /\ LET name == <<"result", ResultKey(p)>>
     IN IF Exists({name})
        THEN returned' = Step(returned, p, disk[name]) /\ Go(p, "done")
        ELSE Go(p, "within") /\ UNCHANGED returned
  /\ UNCHANGED <<source, disk, memo, cluster, loaded, call, lookup, within, bounds>>

WithinFile(part, p) == <<part, WithinKey(p)>>

\* load_within, or partialling out.
GetWithin(p) ==
  /\ place[p] = "within"
  /\ IF Exists({WithinFile("npy", p), WithinFile("manifest", p)})
     THEN within' = Step(within, p, disk[WithinFile("npy", p)]) /\ Go(p, "estimate")
     ELSE /\ within' = Step(within, p,
               [c \in {"y"} \cup call[p] |-> loaded[p][c].values])
          /\ Go(p, "npy")
  /\ UNCHANGED <<source, disk, memo, cluster, loaded, call, lookup, returned, bounds>>

\* save_within: the array, then its manifest.
SaveWithin(p, part) ==
  /\ part \in {"npy", "manifest"}
  /\ place[p] = part
  /\ Put(WithinFile(part, p), within[p])
  /\ Go(p, IF part = "npy" THEN "manifest" ELSE "estimate")
  /\ UNCHANGED <<source, memo, cluster, loaded, call, lookup, within, returned, bounds>>

EstimateFit(p) ==
  /\ place[p] = "estimate"
  /\ returned' = Step(returned, p, [data |-> within[p], cluster |-> cluster[p]])
  /\ Go(p, "result")
  /\ UNCHANGED <<source, disk, memo, cluster, loaded, call, lookup, within, bounds>>

\* save_result: the old directory goes, and the new one takes its place unless
\* another process has put its own there.
RemoveOldResult(p) ==
  /\ place[p] = "result"
  /\ RemoveFile(<<"result", ResultKey(p)>>)
  /\ Go(p, "replace")
  /\ UNCHANGED <<source, memo, cluster, loaded, call, lookup, within, returned, bounds>>

ReplaceResult(p) ==
  /\ place[p] = "replace"
  /\ LET name == <<"result", ResultKey(p)>>
     IN IF Exists({name}) THEN UNCHANGED disk ELSE Put(name, returned[p])
  /\ Go(p, "done")
  /\ UNCHANGED <<source, memo, cluster, loaded, call, lookup, within, returned, bounds>>

\* A result that cannot be saved is no failure of the fit ...
SkipResult(p) ==
  /\ place[p] \in {"result", "replace"}
  /\ Go(p, "done")
  /\ UNCHANGED <<source, disk, memo, cluster, loaded, call, lookup, within, returned, bounds>>

Return(p) ==
  /\ place[p] = "done"
  /\ Go(p, "idle")
  /\ returned' = Step(returned, p, NoFiles)
  /\ within' = Step(within, p, NoFiles)
  /\ UNCHANGED <<source, disk, memo, cluster, loaded, call, lookup, bounds>>

\* ... but a column or a partialled-out column that cannot be written is.
WriteFails(p) ==
  /\ \/ LookedUp(p) /\ unfound[p] \cap DOMAIN fresh[p] # {}
     \/ place[p] \in {"valid", "json", "npy", "manifest"}
  /\ Forget(p)
  /\ within' = Step(within, p, NoFiles)
  /\ Go(p, "idle")
  /\ UNCHANGED <<source, disk, memo, cluster, loaded, call, returned, bounds>>

StoreNext ==
  \/ Rewrite
  \/ \E name \in DOMAIN disk : Delete(name)
  \/ \E p \in Procs :
       \/ Open(p) \/ Close(p) \/ BeginFit(p)
       \/ \E c \in FileColumns :
            \/ ReadManifest(p, c) \/ ReadArrays(p, c) \/ KeepUnsaved(p, c)
            \/ \E part \in ColumnParts : WriteColumn(p, c, part)
       \/ Materialize(p) \/ InstallDataset(p) \/ LookUpResult(p)
       \/ GetWithin(p) \/ \E part \in {"npy", "manifest"} : SaveWithin(p, part)
       \/ EstimateFit(p) \/ RemoveOldResult(p) \/ ReplaceResult(p) \/ SkipResult(p)
       \/ Return(p) \/ WriteFails(p)

StoreSpec == StoreInit /\ [][StoreNext]_storeVars

-----------------------------------------------------------------------------
StoreTypeOK ==
  /\ setup \in Setups
  /\ history \in Seq(Contents)
  /\ \A p \in Procs :
       /\ DOMAIN loaded[p] \subseteq FileColumns
       /\ \A c \in DOMAIN loaded[p] : loaded[p][c] \in [values : Values, sig : Values]
       /\ lookedFor[p] \subseteq FileColumns /\ unfound[p] \subseteq FileColumns
       /\ DOMAIN snaps[p] \subseteq FileColumns
       /\ call[p] \subseteq {"fe"}
       /\ place[p] # "closed" \/ loaded[p] = NoFiles

\* A complete column on disk, however often columns were cached, lost and cached again by processes
\* that died between its files, is the column of the file its directory is named after, and carries
\* its signature; and while the file rests, the dataset of a session is its content: no session
\* estimates from an earlier one (data/persistent.py:269, 338).
ContentOf(fp) == IF setup.validation = "strict" THEN fp[1] ELSE history[fp[1]]
CurrentVersion ==
  /\ StoreTypeOK
  /\ \A n \in DOMAIN disk : n[1] \in {"values", "json"} => disk[n] = ContentOf(n[2])[n[3]]
  /\ setup.quiet => \A p \in Procs, c \in FileColumns :
       c \in DOMAIN loaded[p] => loaded[p][c].values = File[c]

\* What a fit returns is computed from this session's own dataset and clusters,
\* whoever computed it ("Exact source/column signatures plus the full econometric
\* and numerical configuration determine the result").
ResultForThisData ==
  \A p \in Procs : place[p] \in {"result", "replace", "done"} =>
    /\ returned[p].cluster = cluster[p]
    /\ returned[p].data = [c \in {"y"} \cup call[p] |-> loaded[p][c].values]
=============================================================================
