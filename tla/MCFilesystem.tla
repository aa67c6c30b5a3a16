---------------------------- MODULE MCFilesystem ----------------------------
(***************************************************************************)
(* Small instances of the governed filesystem for TLC.                     *)
(***************************************************************************)
EXTENDS FilesystemClient, TLC

CONSTANTS a, b, s, t

Ask(verb, at, fenced) == [verb |-> verb, at |-> at, fenced |-> fenced]
\* Two requests, the chunks of an upload, MUTATION_MAX, UPLOAD_MAX, callers
\* that stop waiting, faults.
Two(x, y, chunks, mutations, most, m, n) ==
  [ask |-> (a :> x) @@ (b :> y), files |-> (s :> "old") @@ (t :> "absent"),
   chunks |-> chunks, ledger |-> mutations, uploads |-> most,
   timeouts |-> m, faults |-> n]

UploadOld == Ask("upload", s, FALSE)
RemoveOld == Ask("remove", s, FALSE)

MCPlans == {
  Two(UploadOld, UploadOld, 1, 2, 2, 0, 1),
  Two(UploadOld, UploadOld, 1, 2, 2, 1, 0),
  Two(UploadOld, Ask("upload", t, FALSE), 0, 2, 1, 1, 0),
  Two(UploadOld, RemoveOld, 2, 2, 2, 1, 1),
  Two(Ask("upload", s, TRUE), Ask("write", s, FALSE), 1, 2, 2, 1, 1),
  Two(Ask("write", s, TRUE), Ask("write", s, TRUE), 0, 2, 1, 2, 1),
  Two(UploadOld, RemoveOld, 0, 1, 1, 0, 0),
  Two(RemoveOld, Ask("mkdir", s, FALSE), 0, 2, 1, 2, 1),
  Two(Ask("mkdir", t, FALSE), Ask("write", t, FALSE), 0, 1, 1, 2, 1),
  Two(Ask("mkdir", t, FALSE), Ask("remove", t, FALSE), 0, 2, 1, 2, 1)}

\* The race that fs_expiry is about.
RacePlans == {Two(UploadOld, UploadOld, 0, 2, 2, 0, 0)}
=============================================================================
