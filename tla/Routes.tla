------------------------------- MODULE Routes -------------------------------
(***************************************************************************)
(* Which handler a request reaches, and with which repository name         *)
(* (rest/routes.go, middleware.go).  A path is the sequence of its         *)
(* segments, those between slashes; a path that ends in a slash ends in    *)
(* the empty segment.  http.ServeMux is modelled by what it does with the  *)
(* patterns used here: the wildcard "one" stands for one segment that is   *)
(* not empty, "rest" for all that follows, and GET serves HEAD where HEAD  *)
(* has no pattern of its own.                                              *)
(***************************************************************************)
EXTENDS Naturals, Sequences

(* After a trailing slash. *)
NoSegment == ""

Separator == {"blobs", "manifests", "tags", "referrers"}

(* Where the part after the repository name may begin: the separator is      *)
(* written with a slash on either side.                                     *)
Cuts(path) == {i \in 2 .. Len(path) - 1 : path[i] \in Separator}

(* Mutant: the leftmost separator. *)
FirstCut(path) == CHOOSE i \in Cuts(path) : \A j \in Cuts(path) : i <= j

(* The rightmost separator, since a name may have components like "blobs". *)
BestCut(path) == CHOOSE i \in Cuts(path) : \A j \in Cuts(path) : j <= i

(* The path below /v2/ as the repository name and the rest. *)
RepoName(path) == SubSeq(path, 1, BestCut(path) - 1)
Suffix(path) == SubSeq(path, BestCut(path), Len(path))

Pattern(methods, segments, handler) ==
    [methods |-> methods, segments |-> segments, handler |-> handler]

(* The patterns of buildOCIRouter. *)
OCIPatterns ==
    {Pattern({"GET"}, <<"blobs", "one">>, "GetBlob"),
     Pattern({"HEAD"}, <<"blobs", "one">>, "HeadBlob"),
     Pattern({"POST"}, <<"blobs", "uploads", "rest">>, "PostBlobUploads"),
     Pattern({"GET", "HEAD"}, <<"blobs", "uploads", "one">>, "GetBlobUpload"),
     Pattern({"PATCH"}, <<"blobs", "uploads", "one">>, "PatchBlobUpload"),
     Pattern({"PUT"}, <<"blobs", "uploads", "one">>, "PutBlobUpload"),
     Pattern({"DELETE"}, <<"blobs", "uploads", "one">>, "DeleteBlobUpload"),
     Pattern({"GET"}, <<"manifests", "one">>, "GetManifest"),
     Pattern({"HEAD"}, <<"manifests", "one">>, "HeadManifest"),
     Pattern({"PUT"}, <<"manifests", "one">>, "PutManifest"),
     Pattern({"DELETE"}, <<"manifests", "one">>, "DeleteManifest"),
     Pattern({"GET", "HEAD"}, <<"referrers", "one">>, "GetReferrers")}

Matches(pattern, method, path) ==
    LET seg == pattern.segments
    IN  /\ method \in pattern.methods
        /\ \/ Len(path) = Len(seg)
           \/ Len(path) > Len(seg) /\ seg[Len(seg)] = "rest"
        /\ \A i \in DOMAIN seg : \/ seg[i] = path[i]
                                 \/ seg[i] = "one" /\ path[i] # NoSegment
                                 \/ seg[i] = "rest"

Reached(handler, name, arg) == [handler |-> handler, name |-> name, arg |-> arg]

(* 404 or 405. *)
Refused == Reached("none", <<>>, <<>>)

(* withNamespace, which refuses an empty name, and the router behind it. No two   *)
(* of its patterns match one path.                                                *)
OCIRoute(method, path) ==
    IF Cuts(path) = {} \/ RepoName(path) = <<NoSegment>> THEN Refused
    ELSE LET rest == Suffix(path)
             hits == {p \in OCIPatterns : Matches(p, method, rest)}
         IN  IF hits = {} THEN Refused
             ELSE LET hit == CHOOSE p \in hits : TRUE
                  IN  Reached(hit.handler, RepoName(path),
                              IF hit.handler = "PostBlobUploads" THEN <<>> ELSE <<rest[Len(rest)]>>)

(* The outer router, for a path below /v2/: the more specific pattern wins. *)
Route(method, path) ==
    CASE path = <<NoSegment>> /\ method \in {"GET", "HEAD"} -> Reached("BaseCheck", <<>>, <<>>)
      [] path = <<"namespaces">> /\ method = "POST" -> Reached("CreateNamespace", <<>>, <<>>)
      [] Len(path) > 1 /\ path[1] = "namespaces" /\ method = "DELETE"
            -> Reached("DeleteNamespace", <<>>, Tail(path))
      [] OTHER -> OCIRoute(method, path)

-----------------------------------------------------------------------------
(* What the comments of the handlers say they implement, for a repository name *)
(* and a digest, reference or upload id.                                       *)

Operation ==
    {"GetBlob", "HeadBlob", "PostBlobUploads", "GetBlobUpload", "PatchBlobUpload",
     "PutBlobUpload", "DeleteBlobUpload", "GetManifest", "HeadManifest", "PutManifest",
     "DeleteManifest", "GetReferrers", "CreateNamespace", "DeleteNamespace", "BaseCheck"}

MethodOf(op) ==
    CASE op \in {"HeadBlob", "HeadManifest"} -> "HEAD"
      [] op \in {"PostBlobUploads", "CreateNamespace"} -> "POST"
      [] op = "PatchBlobUpload" -> "PATCH"
      [] op \in {"PutBlobUpload", "PutManifest"} -> "PUT"
      [] op \in {"DeleteBlobUpload", "DeleteManifest", "DeleteNamespace"} -> "DELETE"
      [] OTHER -> "GET"

PathOf(op, name, arg) ==
    CASE op \in {"GetBlob", "HeadBlob"} -> name \o <<"blobs", arg>>
      [] op = "PostBlobUploads" -> name \o <<"blobs", "uploads", NoSegment>>
      [] op \in {"GetBlobUpload", "PatchBlobUpload", "PutBlobUpload", "DeleteBlobUpload"}
            -> name \o <<"blobs", "uploads", arg>>
      [] op \in {"GetManifest", "HeadManifest", "PutManifest", "DeleteManifest"}
            -> name \o <<"manifests", arg>>
      [] op = "GetReferrers" -> name \o <<"referrers", arg>>
      [] op = "CreateNamespace" -> <<"namespaces">>
      [] op = "DeleteNamespace" -> <<"namespaces">> \o name
      [] op = "BaseCheck" -> <<NoSegment>>

(* The handler meant, with its arguments. *)
Meant(op, name, arg) ==
    CASE op \in {"CreateNamespace", "BaseCheck"} -> Reached(op, <<>>, <<>>)
      [] op = "DeleteNamespace" -> Reached(op, <<>>, name)
      [] op = "PostBlobUploads" -> Reached(op, name, <<>>)
      [] OTHER -> Reached(op, name, <<arg>>)

(* DELETE of anything below a repository whose name begins with the component *)
(* "namespaces" reaches HandleDeleteNamespace.                                *)
Shadowed(op, name) ==
    name[1] = "namespaces" /\ op \in {"DeleteBlobUpload", "DeleteManifest"}
=============================================================================
