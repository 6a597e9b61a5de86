---------------------------- MODULE ContextStore ----------------------------
(***************************************************************************)
(* What the storage of the modem contexts promises.  A store changes       *)
(* nothing but the bytes it was asked to change, and it changes them to    *)
(* what it was given.  A reset in the middle of a store may damage the     *)
(* flash page the store is at, and nothing else.                           *)
(***************************************************************************)
EXTENDS Integers

CONSTANTS
  Bytes,   \* addresses of the flash area
  Page,    \* size of a flash page
  Values,  \* what a byte may hold
  Erased,  \* the byte of an erased page
  None     \* no store in progress

VARIABLES
  content,  \* what each byte holds, the page in hand included
  asked     \* the store in progress: its bytes and what they become

storeVars == <<content, asked>>

SamePage(a, b) == a \div Page = b \div Page

Init == /\ content \in [Bytes -> Values \cup {Erased}]
        /\ asked = None

Ask == /\ asked = None
       /\ asked' # None
       /\ asked'.bytes \subseteq Bytes /\ asked'.value \in Values
       /\ UNCHANGED content

\* Some of the bytes take their new value.
Apply ==
  /\ asked # None
  /\ \A a \in Bytes : content'[a] # content[a] =>
                        a \in asked.bytes /\ content'[a] = asked.value
  /\ UNCHANGED asked

\* The store returns; every byte has its new value.
Done == /\ asked # None
        /\ \A a \in asked.bytes : content'[a] = asked.value
        /\ \A a \in Bytes \ asked.bytes : content'[a] = content[a]
        /\ asked' = None

\* A reset during a store: the bytes of one page may end up erased, and some
\* of the bytes that were asked for may have their new value.
Lose == /\ asked = None => UNCHANGED content
        /\ \A a \in Bytes : content'[a] # content[a] =>
             content'[a] = Erased \/ (a \in asked.bytes /\ content'[a] = asked.value)
        /\ \A a, b \in Bytes :
             /\ content'[a] # content[a] /\ content'[a] = Erased
             /\ content'[b] # content[b] /\ content'[b] = Erased
             => SamePage(a, b)
        /\ asked' = None

\* Whole pages are erased on request.
ErasePages ==
  /\ asked = None
  /\ \A a, b \in Bytes :
       content'[a] # content[a] /\ SamePage(a, b) => content'[b] = Erased
  /\ UNCHANGED asked

Next == Ask \/ Apply \/ Done \/ Lose \/ ErasePages

Spec == Init /\ [][Next]_storeVars
=============================================================================
