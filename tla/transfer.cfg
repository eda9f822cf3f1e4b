\* Two downloads and an upload of one remote path, in any overlap; the second
\* chunk of each waits for the permit of the first.
\* Deadlock is not checked: every call is made once.
SPECIFICATION FairSpec
CONSTANTS
    Downloads = {d1, d2}
    Uploads = {u1}
    Original = Original
    Mixed = Mixed
    Chunks = 2
    MaxParallel = 1
    None = None
    Short = Short
INVARIANTS
    DownloadExact
    UploadExact
    TargetUnmixed
    NoLocalParts
    NoRemoteParts
PROPERTY TransferEnds
CHECK_DEADLOCK FALSE
