----------------------------- MODULE ServerSuite -----------------------------
(***************************************************************************)
(* What the server keeps for itself, as one specification: its blobs, its  *)
(* rate limiter and its invites.  Each behaviour is one of one profile,    *)
(* chosen at the start; a variable that the profile's component does not   *)
(* have stays at NotUsed.                                                  *)
(***************************************************************************)
EXTENDS Naturals, FiniteSets

CONSTANTS
    BlobUsers, Nobody, Blobs, Chunks, Versions, OldKey, Refs, Quota, BlobFaults, MaxBlobFaults, \* BlobStorage
    LimitKeys, Rate, Burst, MaxKeys, IdleTicks, TrimTicks, MaxLimitTime, SampleSize,        \* RateLimiter
    Accounts, Invites, UserLimit, InviteTTL, MaxEnrolTime, MaxAttempts, MaxFailures         \* Enrolment

\* What the configuration and the build of the server guarantee: limits and
\* times are numbers, and config.go refuses those that must be positive.
BlobConstants ==
    /\ Blobs \subseteq Nat /\ IsFiniteSet(Blobs) /\ IsFiniteSet(Chunks)
    /\ Nobody \notin BlobUsers /\ Quota \in Nat
    /\ BlobFaults \subseteq {"put", "complete", "collect", "sweep"}
LimiterConstants ==
    /\ Rate \in Nat /\ Burst \in Nat \ {0} /\ MaxKeys \in Nat \ {0} /\ IdleTicks \in Nat
    /\ TrimTicks \in Nat /\ MaxLimitTime \in Nat /\ IsFiniteSet(LimitKeys)
EnrolConstants == UserLimit \in Nat /\ InviteTTL \in Nat
ASSUME ServerConstants == BlobConstants /\ LimiterConstants /\ EnrolConstants

VARIABLES
    profile, now, faults,
    row, staging, final, trash, used, reserved, op, todo, mode, rotated, cut,
    buckets, lastTrim, allowed,
    invites, users, mu, registrations, client, attempts

Stored == INSTANCE BlobStorage WITH Users <- BlobUsers, Faulty <- BlobFaults, MaxFaults <- MaxBlobFaults

Limiter == INSTANCE RateLimiter WITH Keys <- LimitKeys, MaxTime <- MaxLimitTime

Enrolling == INSTANCE Enrolment WITH
    Account <- Accounts, Invite <- Invites, TTL <- InviteTTL, MaxTime <- MaxEnrolTime, MaxCalls <- MaxAttempts,
    MaxFaults <- MaxFailures, requests <- registrations, calls <- attempts

blobVars == <<row, staging, final, trash, used, reserved, op, todo, mode, rotated, cut>>
limitVars == <<buckets, lastTrim, allowed>>
enrolVars == <<invites, users, mu, registrations, client, attempts>>
serverVars == <<profile, now, faults, blobVars, limitVars, enrolVars>>

NotUsed == 0
NoBlob == /\ row = NotUsed /\ staging = NotUsed /\ final = NotUsed /\ trash = NotUsed
          /\ used = NotUsed /\ reserved = NotUsed /\ op = NotUsed /\ todo = NotUsed
          /\ mode = NotUsed /\ rotated = NotUsed /\ cut = NotUsed
NoLimit == buckets = NotUsed /\ lastTrim = NotUsed /\ allowed = NotUsed
NoEnrol == /\ invites = NotUsed /\ users = NotUsed /\ mu = NotUsed /\ registrations = NotUsed
           /\ client = NotUsed /\ attempts = NotUsed

ServerInit ==
    \/ profile = "blobs" /\ Stored!Init /\ NoLimit /\ NoEnrol /\ now = NotUsed
    \/ profile = "limit" /\ Limiter!Init /\ NoBlob /\ NoEnrol /\ faults = NotUsed
    \/ profile = "enrolment" /\ Enrolling!Init /\ NoBlob /\ NoLimit

ServerNext ==
    /\ UNCHANGED profile
    /\ \/ profile = "blobs" /\ Stored!Next /\ UNCHANGED <<limitVars, enrolVars, now>>
       \/ profile = "limit" /\ Limiter!Next /\ UNCHANGED <<blobVars, enrolVars, faults>>
       \/ profile = "enrolment" /\ Enrolling!Next /\ UNCHANGED <<blobVars, limitVars>>

ServerSpec == ServerInit /\ [][ServerNext]_serverVars
-----------------------------------------------------------------------------
\* The bytes charged to a user are those of the user's blobs.
QuotaAccounted == profile = "blobs" => Stored!QuotaAccounted

\* The rows of the blobs tell the truth about the files: no file of an earlier
\* upload survives its row, a chunk reported as uploaded is on disk, and a
\* complete blob can be downloaded.
RowsMatchFiles ==
    profile = "blobs" =>
        Stored!FilesMatchRow /\ Stored!UploadedOnDisk /\ Stored!CompleteReadable

\* No key is allowed more than its burst and what returned since, while the
\* table has room for the keys that ask; and the table stays within its limit.
WithinRate == profile = "limit" => Limiter!WithinRate /\ Limiter!TableBounded

\* Registrations that overlap use an invite once and respect the user limit.
EnrolledOnce ==
    profile = "enrolment" => Enrolling!ConsumedByOneUser /\ Enrolling!WithinUserLimit
=============================================================================
