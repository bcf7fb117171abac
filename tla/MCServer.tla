----------------------------- MODULE MCServer -----------------------------
(* An instance of Server for TLC. *)
EXTENDS Server

CONSTANTS c1, c2

(* Repository names with components that also have a meaning in a path. *)
Names ==
    {<<"a">>, <<"blobs">>, <<"manifests", "a">>, <<"a", "blobs", "uploads">>,
     <<"a", "tags">>, <<"referrers", "manifests", "tags">>, <<"namespaces", "blobs">>}

Ask(op, name, header, size, length) ==
    [op |-> op, name |-> name, arg |-> "x", header |-> header, size |-> size, length |-> length]

Headers ==
    {NoHeader, Malformed} \cup {Header(i, j) : i \in 0 .. MaxInt + 2, j \in 0 .. MaxInt + 2}

(* The first client asks for every operation on every name, and sends every      *)
(* header for blobs and sessions of every size; the second keeps the server busy. *)
MCRequests ==
    [c \in Client |->
        IF c = c1
        THEN {Ask(op, name, NoHeader, 1, 1) : op \in Operation, name \in Names}
             \cup {Ask("GetBlob", <<"a">>, h, size, 0) : h \in Headers, size \in 0 .. MaxInt}
             \cup {Ask("GetBlobUpload", <<"a">>, NoHeader, size, 0) : size \in 0 .. MaxInt}
             \cup {Ask("PatchBlobUpload", <<"a">>, h, size, length) :
                      h \in Headers, size \in 0 .. MaxInt - 1, length \in 0 .. 1}
        ELSE {Ask("HeadBlob", <<"a">>, NoHeader, 1, 0), Ask("BaseCheck", <<"a">>, NoHeader, 0, 0)}]
=============================================================================
