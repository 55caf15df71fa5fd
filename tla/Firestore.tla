------------------------------ MODULE Firestore ------------------------------
(***************************************************************************)
(* The part of the Cloud Firestore client the app relies on for the arrays *)
(* of a user document: an updateData of one FieldValue.arrayUnion or       *)
(* arrayRemove.  A client commits its writes to a local queue that         *)
(* survives a restart, sends them to the backend one by one in that order, *)
(* and reads documents as "what the backend holds, with my own queued      *)
(* writes applied on top" (latency compensation).                          *)
(*                                                                         *)
(* docs[d][f] is the array f of document d.  The app only tests arrays for *)
(* membership and loops over them, and a transform keeps their elements    *)
(* distinct, so an array is a set here.  A write is a record               *)
(*   [doc, field, op, id, ...]  with op "union" or "remove".               *)
(***************************************************************************)
EXTENDS Naturals, Sequences

\* ArrayTransform::Apply on the array a write addresses.
Transform(w, array) ==
    IF w.op = "union" THEN array \cup {w.id} ELSE array \ {w.id}

ApplyWrite(docs, w) ==
    [docs EXCEPT ![w.doc][w.field] = Transform(w, @)]

\* The places of queue q that write element v of array f of document d.
WritesTo(q, d, f, v) ==
    {i \in DOMAIN q : q[i].doc = d /\ q[i].field = f /\ q[i].id = v}

\* Is v in array f of document d once the whole queue is applied?  Only the
\* last queued write of that element counts.
HoldsAfter(docs, q, d, f, v) ==
    \/ /\ WritesTo(q, d, f, v) = {}
       /\ v \in docs[d][f]
    \/ \E i \in WritesTo(q, d, f, v) :
          /\ q[i].op = "union"
          /\ \A j \in WritesTo(q, d, f, v) : j <= i

\* LocalDocumentsView: the array as the owner of queue q reads it.
SeenBy(docs, q, d, f) ==
    {v \in docs[d][f] \cup {q[i].id : i \in DOMAIN q} : HoldsAfter(docs, q, d, f, v)}
=============================================================================
