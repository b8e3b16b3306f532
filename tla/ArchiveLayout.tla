---------------------------- MODULE ArchiveLayout ----------------------------
(* Where the blocks of a RAR5 archive land (rar50/write/layout.rs).  The     *)
(* main header holds the offsets of the quick-open and the recovery block as *)
(* integers of variable length, so its own length depends on offsets that    *)
(* depend on its length.  resolve_layout starts with offsets of zero and     *)
(* repeats until they stay; nothing but its argument bounds the loop.        *)
(*                                                                           *)
(* A layout is what is known before: lengths in bytes.  Positions are checked *)
(* against the largest integer of the code; the lengths of what is held in   *)
(* memory cannot come near it.                                               *)
EXTENDS Integers

CONSTANTS
    Layouts,      \* [encrypted, fixed, record, metadata, body, quickOpen, recovery]:
                  \*   header encryption; the flags and the volume number; archive metadata
                  \*   "given", "retained" or "none", and the length of its record; the
                  \*   blocks between the main header and the quick-open block; the
                  \*   quick-open block, or Omitted; whether there is a recovery record
    Omitted,      \* no such block; it has no offset
    HeadCrypt,    \* the block that announces encrypted headers
    Signature,    \* RAR50_SIGNATURE.len(), 8
    MaxWidth,     \* bytes of the widest integer, 10
    WidthLimit,   \* WidthLimit[n] is the first value that takes more than n bytes
    MaxOffset,    \* u64::MAX
    SettledWithin \* passes that suffice, says the comment at layout.rs:75

\* What a main header takes beside the flags, the volume number and the metadata.
HeaderSlack == 128

ASSUME LayoutAssumption ==
    /\ {Signature, HeadCrypt} \subseteq Nat /\ SettledWithin \in Nat /\ Omitted \notin Nat
    /\ \A l \in Layouts :
        /\ l.encrypted \in BOOLEAN /\ l.recovery \in BOOLEAN
        /\ l.record \in {"given", "retained", "none"}
        /\ l.fixed \in Nat /\ l.metadata \in Nat /\ l.body \in Nat
        /\ l.quickOpen \in Nat \cup {Omitted}
        /\ l.fixed + l.metadata + HeaderSlack <= MaxOffset

\* Seven bits a byte, and every offset has a width.
ASSUME WidthAssumption ==
    /\ MaxWidth \in 1 .. 10 /\ WidthLimit \in [1 .. MaxWidth -> Nat] /\ WidthLimit[1] = 128
    /\ \A n \in 2 .. MaxWidth : WidthLimit[n] = 128 * WidthLimit[n - 1]
    /\ MaxOffset \in Nat /\ MaxOffset < WidthLimit[MaxWidth]

\* The comment's bound: one pass from zero, one for each offset that then
\* crosses a boundary, one to carry the last on and one to see it stay.
ASSUME SettledAssumption == SettledWithin >= 5

VARIABLES
    layout,
    quickOffset,     \* quick_open_offset
    recoveryOffset,  \* recovery_offset
    passes,          \* turns of the loop
    resolution       \* "open", "settled", or "overflow": Err(InvalidArgument)

layoutVars == <<layout, quickOffset, recoveryOffset, passes, resolution>>

HasQuickOpen == layout.quickOpen # Omitted
CryptBlock == IF layout.encrypted THEN HeadCrypt ELSE 0
QuickOpenLength == IF HasQuickOpen THEN layout.quickOpen ELSE 0

---------------------------------------------------------------------------
(* Lengths. *)

Vint(value) == CHOOSE n \in 1 .. MaxWidth : value < WidthLimit[n] /\ (n > 1 => value >= WidthLimit[n - 1])

\* The length of an optional field, and of a record of one-byte type.
Field(offset) == IF offset = Omitted THEN 0 ELSE Vint(offset)
Record(data) == Vint(data + 1) + data + 1

\* resolved_main_extra: archive metadata brings a locator that points nowhere.
Locator(quick, recovery) ==
    LET shown == IF quick = Omitted /\ layout.record = "given" THEN 0 ELSE quick
    IN IF shown = Omitted /\ recovery = Omitted THEN 0
       ELSE Record(1 + Field(shown) + Field(recovery))

MainExtra(quick, recovery) ==
    Locator(quick, recovery) + IF layout.record = "none" THEN 0 ELSE layout.metadata

\* The length of the extra area is a field of its own when there is one.
MainBody(extra) == 2 + (IF extra = 0 THEN 0 ELSE Vint(extra)) + layout.fixed + extra

Plain(bytes) == 4 + Vint(bytes) + bytes
Emitted(plain) == IF layout.encrypted THEN 16 + ((plain + 15) \div 16) * 16 ELSE plain

MainHeader(quick, recovery) == Emitted(Plain(MainBody(MainExtra(quick, recovery))))

---------------------------------------------------------------------------

QuickPosition(quick, recovery) ==
    Signature + CryptBlock + MainHeader(quick, recovery) + layout.body
RecoveryPosition(quick, recovery) == QuickPosition(quick, recovery) + QuickOpenLength

NextQuick ==
    IF quickOffset = Omitted THEN Omitted
    ELSE QuickPosition(quickOffset, recoveryOffset) - Signature
NextRecovery ==
    IF recoveryOffset = Omitted THEN Omitted
    ELSE RecoveryPosition(quickOffset, recoveryOffset) - Signature

RecoveryStays == NextRecovery = recoveryOffset  \* mutant: one offset decides

OffsetsStay == NextQuick = quickOffset /\ NextRecovery = recoveryOffset

LayoutInit ==
    /\ layout \in Layouts
    /\ quickOffset = (IF HasQuickOpen THEN 0 ELSE Omitted)
    /\ recoveryOffset = (IF layout.recovery THEN 0 ELSE Omitted)
    /\ passes = 0 /\ resolution = "open"

Fits == RecoveryPosition(quickOffset, recoveryOffset) <= MaxOffset

ResolvePass ==
    /\ resolution = "open" /\ Fits
    /\ resolution' = (IF OffsetsStay THEN "settled" ELSE "open")
    /\ quickOffset' = NextQuick /\ recoveryOffset' = NextRecovery
    /\ passes' = passes + 1
    /\ UNCHANGED layout

\* checked_add fails.
Overflow ==
    /\ resolution = "open" /\ ~Fits
    /\ resolution' = "overflow" /\ passes' = passes + 1
    /\ UNCHANGED <<layout, quickOffset, recoveryOffset>>

LayoutNext == ResolvePass \/ Overflow

LayoutSpec == LayoutInit /\ [][LayoutNext]_layoutVars

\* An archive that is written with these offsets has its blocks exactly there:
\* each offset is the length of what precedes its block, the main header that
\* holds it included.
Exact(quick, recovery) ==
    /\ HasQuickOpen => quick = CryptBlock + MainHeader(quick, recovery) + layout.body
    /\ layout.recovery =>
         recovery = CryptBlock + MainHeader(quick, recovery) + layout.body + QuickOpenLength

\* The loop settles in the passes its comment promises, and then the archive
\* that is written with the settled offsets has its blocks exactly there.
LayoutSettles ==
    /\ passes <= SettledWithin
    /\ resolution = "settled" => Exact(quickOffset, recoveryOffset)
=============================================================================
