------------------------------- MODULE Artwork -------------------------------
(***************************************************************************)
(* Spotify's album covers: DeckArtwork, which keeps the last few covers,   *)
(* and CoverArtFetcher, whose thread downloads the cover asked for last.   *)
(* Drawing a frame asks for the cover on it (`Draws'); a cover that        *)
(* arrives makes the view draw again.  A download that fails is kept like  *)
(* one that succeeded, so both are one cover here.                         *)
(***************************************************************************)
EXTENDS Naturals, Sequences, SequencesExt

CONSTANTS
    Covers,         \* cover URLs
    NoCover,        \* no URL
    CachedCovers,   \* kCachedCovers
    MaxFetched      \* bound on results waiting for the event loop

ASSUME ArtworkAssumption ==
    NoCover \notin Covers /\ CachedCovers \in Nat \ {0} /\ MaxFetched \in Nat \ {0}

VARIABLES
    coverOrder,     \* coverOrder_, whose elements are the keys of covers_
    fetching,       \* fetching_
    pending,        \* the fetcher's pending_
    downloading,    \* what its thread is busy with
    fetched         \* results posted to the event loop

artVars == <<coverOrder, fetching, pending, downloading, fetched>>

ArtInit ==
    /\ coverOrder = <<>> /\ fetched = <<>>
    /\ fetching = NoCover /\ pending = NoCover /\ downloading = NoCover

----------------------------------------------------------------------------
(* The event loop.                                                         *)

\* Mutation of Fetch: a cover still waiting to be downloaded keeps its place.
FetchWithoutReplacing(url) == pending' = IF pending = NoCover THEN url ELSE pending

\* CoverArtFetcher::fetch: the newer request replaces one still waiting.
Fetch(url) == pending' = url

\* DeckArtwork::cover, with `order' cached and `asked' under way: a cover that
\* is neither is fetched.
Cover(url, order, asked) ==
    IF url = NoCover \/ url \in ToSet(order) \/ url = asked
    THEN fetching' = asked /\ UNCHANGED pending
    ELSE fetching' = url /\ Fetch(url)

\* Drawing a frame with a cover on it, or with none.
Draws(url) ==
    /\ Cover(url, coverOrder, fetching)
    /\ UNCHANGED <<coverOrder, downloading, fetched>>

\* Mutation of Keep: a full cache stays as it is.
KeepOldest(url) ==
    IF url \in ToSet(coverOrder) \/ Len(coverOrder) = CachedCovers THEN coverOrder
    ELSE Append(coverOrder, url)

\* The cached covers once `url' is one of them: the oldest makes room.
Keep(url) ==
    IF url \in ToSet(coverOrder) THEN coverOrder
    ELSE LET order == Append(coverOrder, url)
         IN IF Len(order) > CachedCovers THEN Tail(order) ELSE order

\* fetching_, once `url' has arrived.
Answered(url) == IF fetching = url THEN NoCover ELSE fetching

\* DeckArtwork::onCoverFetched, and the view drawing the frame with `url' again.
CoverFetched(url) ==
    /\ fetched # <<>>
    /\ fetched' = Tail(fetched)
    /\ coverOrder' = Keep(Head(fetched))
    /\ Cover(url, coverOrder', Answered(Head(fetched)))
    /\ UNCHANGED downloading

----------------------------------------------------------------------------
(* CoverArtFetcher's thread.                                               *)

DownloadBegins ==
    /\ downloading = NoCover /\ pending # NoCover
    /\ downloading' = pending /\ pending' = NoCover
    /\ UNCHANGED <<coverOrder, fetching, fetched>>

\* The download ends, with a cover or without, and the result is posted.
DownloadEnds ==
    /\ downloading # NoCover /\ Len(fetched) < MaxFetched
    /\ fetched' = Append(fetched, downloading) /\ downloading' = NoCover
    /\ UNCHANGED <<coverOrder, fetching, pending>>

----------------------------------------------------------------------------
\* A cover that cover() believes to be on its way is: the fetcher has it, or its
\* result is waiting.  If it weren't, it would never be asked for again.
CoverUnderWay ==
    fetching # NoCover => fetching \in {pending, downloading} \cup ToSet(fetched)

=============================================================================
