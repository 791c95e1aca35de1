---------------------------- MODULE WhiteListConfig ----------------------------
(***************************************************************************)
(* WhiteListConfigMgr: the patterns of the urls of atomic services.  The   *)
(* dynamic list is replaced by an update and kept in a preferences file,   *)
(* joined by commas, for the next start of the manager; the default one is *)
(* only read.                                                              *)
(*                                                                         *)
(* A pattern is the sequence of its pieces between commas: <<p>> has no    *)
(* comma, and <<>> is the empty pattern.                                   *)
(***************************************************************************)
EXTENDS Integers, Sequences

CONSTANTS
    Url,
    Piece,
    Match,      \* pairs of a url and a pattern it matches
    BadRegex,   \* patterns regcomp refuses
    Default     \* the default pattern

Empty == <<>>

ASSUME WhiteListConfigAssumption ==
    /\ Match \subseteq Url \X Seq(Piece)
    /\ BadRegex \subseteq Seq(Piece)
    /\ Default \in Seq(Piece) \ {Empty}

VARIABLES
    loaded,           \* by the first call that needs it
    whiteListSet,
    defaultWhiteUrl,
    preferences,      \* the preferences of the dynamic list are open
    stored,           \* pieces in the file
    last,             \* history: the list last given
    saved,            \* history: it is in the file
    reloaded          \* history: the manager has restarted since

whiteListVars == <<loaded, whiteListSet, defaultWhiteUrl, preferences, stored,
                   last, saved, reloaded>>

InitWhiteList ==
    /\ loaded = FALSE
    /\ whiteListSet = {}
    /\ defaultWhiteUrl = Empty
    /\ preferences = FALSE
    /\ stored = {}
    /\ last = {}
    /\ saved = TRUE
    /\ reloaded = FALSE

Pieces(list) == UNION {{p[i] : i \in DOMAIN p} : p \in list}

Split(pieces) == {<<p>> : p \in pieces}

LoadDefault == defaultWhiteUrl' \in {Default, Empty}

LoadDynamic ==
    \/ preferences' = TRUE /\ whiteListSet' = Split(stored)
    \/ preferences' = FALSE /\ whiteListSet' = {}

Load ==
    /\ loaded' = TRUE
    /\ LoadDefault
    /\ LoadDynamic
    /\ UNCHANGED <<stored, last, saved, reloaded>>

(* The put fails, or the flush, whose result is ignored, is not done       *)
(* before the process ends; or the list is in the file.                    *)
Save(list) ==
    \/ preferences /\ stored' = Pieces(list) /\ saved' = TRUE
    \/ UNCHANGED stored /\ saved' = FALSE

NotSaved == UNCHANGED stored /\ saved' = FALSE

Replace(list) ==
    /\ whiteListSet' = list
    /\ last' = list
    /\ reloaded' = FALSE
    /\ UNCHANGED <<loaded, defaultWhiteUrl, preferences>>

Filtered(whiteList) == whiteList \ {Empty}

\* mutant: the set is assigned after the save
UpdateWhiteListSavesFirst(whiteList) ==
    /\ Replace(Filtered(whiteList))
    /\ IF whiteListSet # {} THEN Save(whiteListSet) ELSE NotSaved

(* An empty list is not saved. *)
UpdateWhiteList(whiteList) ==
    /\ Replace(Filtered(whiteList))
    /\ IF Filtered(whiteList) # {} THEN Save(Filtered(whiteList)) ELSE NotSaved

(* regcomp's error is positive and the code looks for a negative one: what *)
(* regexec then does is not defined.                                       *)
IsMatched(url, pattern) ==
    IF pattern = Empty THEN {FALSE}
    ELSE IF pattern \in BadRegex THEN BOOLEAN ELSE {(<<url, pattern>> \in Match)}

(* The answers there may be. *)
IsInWhiteList(url) ==
    LET patterns == whiteListSet \cup {defaultWhiteUrl} IN
    {\E p \in patterns : FALSE \notin IsMatched(url, p),
     \E p \in patterns : TRUE \in IsMatched(url, p)}

(* The manager's process ends. *)
EndWhiteList ==
    /\ loaded' = FALSE
    /\ whiteListSet' = {}
    /\ defaultWhiteUrl' = Empty
    /\ preferences' = FALSE
    /\ reloaded' = TRUE
    /\ UNCHANGED <<stored, last, saved>>
-----------------------------------------------------------------------------
TypeOKWhiteList ==
    /\ loaded \in BOOLEAN
    /\ whiteListSet \in SUBSET Seq(Piece)
    /\ defaultWhiteUrl \in {Default, Empty}
    /\ preferences \in BOOLEAN
    /\ stored \in SUBSET Piece
    /\ last \in SUBSET Seq(Piece)
    /\ saved \in BOOLEAN
    /\ reloaded \in BOOLEAN

(***************************************************************************)
(* The manager answers from the list last given to it, also after any      *)
(* number of restarts.  After a restart it may have another one in three   *)
(* cases only: the list was not saved (an empty one never is, and then the *)
(* list before it is back), the preferences do not open, or a pattern has  *)
(* a comma: then the list has its pieces.                                  *)
(***************************************************************************)
ListIsKept ==
    \/ ~loaded
    \/ whiteListSet = last
    \/ /\ reloaded
       /\ \/ ~saved
          \/ ~preferences
          \/ /\ \E p \in last : Len(p) > 1
             /\ whiteListSet = Split(Pieces(last))
===============================================================================
