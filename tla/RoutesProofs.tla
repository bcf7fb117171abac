---------------------------- MODULE RoutesProofs ----------------------------
(***************************************************************************)
(* The routing of Routes, for repository names of any length and any       *)
(* components that are not empty.                                          *)
(***************************************************************************)
EXTENDS Routes, TLAPS

LEMMA Concat ==
    ASSUME NEW S, NEW s \in Seq(S), NEW t \in Seq(S)
    PROVE  /\ s \o t \in Seq(S) /\ Len(s \o t) = Len(s) + Len(t)
           /\ \A i \in 1 .. Len(s) : (s \o t)[i] = s[i]
           /\ \A i \in 1 .. Len(t) : (s \o t)[Len(s) + i] = t[i]
OBVIOUS

LEMMA Split ==
    ASSUME NEW S, NEW s \in Seq(S), NEW t \in Seq(S)
    PROVE  /\ SubSeq(s \o t, 1, Len(s)) = s
           /\ SubSeq(s \o t, Len(s) + 1, Len(s \o t)) = t
<1> DEFINE p == s \o t
<1>1. SubSeq(p, 1, Len(s)) = s
  BY Concat
<1>2. SubSeq(p, Len(s) + 1, Len(p)) = t
  BY Concat
<1> QED BY <1>1, <1>2

(* The name is cut off where the rest begins, whatever its components are: the   *)
(* rest has no other separator.                                                 *)
LEMMA Cut ==
    ASSUME NEW S, NEW name \in Seq(S), name # <<>>, NEW t \in Seq(S), Len(t) >= 2, t[1] \in Separator,
           \A i \in 2 .. Len(t) - 1 : t[i] \notin Separator
    PROVE  LET p == name \o t IN Cuts(p) # {} /\ BestCut(p) = Len(name) + 1
<1> DEFINE p == name \o t
           b == Len(name) + 1
<1>1. Len(name) \in Nat \ {0} /\ Len(t) \in Nat /\ Len(p) = Len(name) + Len(t)
  BY Concat
<1>2. b \in Cuts(p)
  BY <1>1, Concat DEF Cuts
<1>3. ASSUME NEW i \in Cuts(p) PROVE i <= b
  <2>1. CASE i > b
    <3>1. i - Len(name) \in 2 .. Len(t) - 1 /\ i = Len(name) + (i - Len(name))
      BY <1>1, <2>1 DEF Cuts
    <3>2. p[i] = t[i - Len(name)]
      BY <1>1, <3>1, Concat
    <3> QED BY <3>1, <3>2 DEF Cuts
  <2> QED BY <1>1, <2>1 DEF Cuts
<1>4. \A i \in Cuts(p) : (\A j \in Cuts(p) : j <= i) => i = b
  BY <1>1, <1>2, <1>3 DEF Cuts
<1>5. BestCut(p) = b
  BY <1>2, <1>3, <1>4 DEF BestCut
<1> QED BY <1>2, <1>5

(* A pattern <<k, one>>, and a pattern <<"blobs", "uploads", w>>: what a path that *)
(* matches them is, and that such a path matches them.                           *)
IsTwo(p, ms, k, h) == p = Pattern(ms, <<k, "one">>, h)
IsThree(p, ms, w, h) == p = Pattern(ms, <<"blobs", "uploads", w>>, h)

LEMMA TwoTaken ==
    ASSUME NEW p, NEW ms, NEW k \in {"blobs", "manifests", "referrers"}, NEW h, IsTwo(p, ms, k, h),
           NEW method, NEW path, Matches(p, method, path)
    PROVE  /\ method \in ms /\ Len(path) = 2 /\ path[1] = k
           /\ p.handler = h
<1> DEFINE seg == <<k, "one">>
           Fits(i) == \/ seg[i] = path[i]
                      \/ seg[i] = "one" /\ path[i] # NoSegment
                      \/ seg[i] = "rest"
<1>1. p.methods = ms /\ p.segments = seg /\ p.handler = h
  BY DEF Pattern, IsTwo
<1>2. Len(seg) = 2 /\ seg[1] = k /\ seg[2] = "one" /\ DOMAIN seg = 1 .. 2
  OBVIOUS
<1>3. 1 .. 2 = {1, 2}
  OBVIOUS
<1>4. "one" # NoSegment /\ "one" # "rest"
  BY DEF NoSegment
<1> HIDE DEF seg
<1>5. Fits(1) <=> path[1] = k
  BY <1>2
<1>6. Fits(2) <=> path[2] # NoSegment
  BY <1>2, <1>4
<1>7. Matches(p, method, path) <=>
          /\ method \in ms
          /\ Len(path) = 2
          /\ \A i \in {1, 2} : Fits(i)
  BY <1>1, <1>2, <1>3 DEF Matches
<1> HIDE DEF Fits
<1> QED BY <1>1, <1>5, <1>6, <1>7

LEMMA TwoFits ==
    ASSUME NEW p, NEW ms, NEW k \in {"blobs", "manifests", "referrers"}, NEW h, IsTwo(p, ms, k, h),
           NEW method \in ms, NEW path, Len(path) = 2, path[1] = k, path[2] # NoSegment
    PROVE  Matches(p, method, path)
<1> DEFINE seg == <<k, "one">>
           Fits(i) == \/ seg[i] = path[i]
                      \/ seg[i] = "one" /\ path[i] # NoSegment
                      \/ seg[i] = "rest"
<1>1. p.methods = ms /\ p.segments = seg /\ p.handler = h
  BY DEF Pattern, IsTwo
<1>2. Len(seg) = 2 /\ seg[1] = k /\ seg[2] = "one" /\ DOMAIN seg = 1 .. 2
  OBVIOUS
<1>3. 1 .. 2 = {1, 2}
  OBVIOUS
<1>4. "one" # NoSegment /\ "one" # "rest"
  BY DEF NoSegment
<1> HIDE DEF seg
<1>5. Fits(1) <=> path[1] = k
  BY <1>2
<1>6. Fits(2) <=> path[2] # NoSegment
  BY <1>2, <1>4
<1>7. Matches(p, method, path) <=>
          /\ method \in ms
          /\ Len(path) = 2
          /\ \A i \in {1, 2} : Fits(i)
  BY <1>1, <1>2, <1>3 DEF Matches
<1> HIDE DEF Fits
<1> QED BY <1>1, <1>5, <1>6, <1>7

LEMMA Three ==
    ASSUME NEW p, NEW ms, NEW w \in {"one", "rest"}, NEW h, IsThree(p, ms, w, h),
           NEW method, NEW path
    PROVE  /\ Matches(p, method, path) => method \in ms /\ (Len(path) = 3 \/ Len(path) > 3)
           /\ /\ method \in ms /\ Len(path) = 3
              /\ path[1] = "blobs" /\ path[2] = "uploads" /\ (w = "rest" \/ path[3] # NoSegment)
              => Matches(p, method, path)
           /\ p.handler = h
<1> DEFINE seg == <<"blobs", "uploads", w>>
           Fits(i) == \/ seg[i] = path[i]
                      \/ seg[i] = "one" /\ path[i] # NoSegment
                      \/ seg[i] = "rest"
<1>1. p.methods = ms /\ p.segments = seg /\ p.handler = h
  BY DEF Pattern, IsThree
<1>2. Len(seg) = 3 /\ seg[1] = "blobs" /\ seg[2] = "uploads" /\ seg[3] = w /\ DOMAIN seg = 1 .. 3
  OBVIOUS
<1>3. 1 .. 3 = {1, 2, 3}
  OBVIOUS
<1>4. "one" # NoSegment /\ "one" # "rest"
  BY DEF NoSegment
<1> HIDE DEF seg
<1>5. /\ Fits(1) <=> path[1] = "blobs"
      /\ Fits(2) <=> path[2] = "uploads"
  BY <1>2
<1>6. Fits(3) <=> (w = "rest" \/ path[3] # NoSegment)
  BY <1>2, <1>4
<1>7. Matches(p, method, path) <=>
          /\ method \in ms
          /\ Len(path) = 3 \/ (Len(path) > 3 /\ w = "rest")
          /\ \A i \in {1, 2, 3} : Fits(i)
  BY <1>1, <1>2, <1>3 DEF Matches
<1> HIDE DEF Fits
<1> QED BY <1>1, <1>5, <1>6, <1>7

(* All the patterns there are. *)
LEMMA Shapes ==
    ASSUME NEW p \in OCIPatterns
    PROVE  \/ IsTwo(p, {"GET"}, "blobs", "GetBlob")
           \/ IsTwo(p, {"HEAD"}, "blobs", "HeadBlob")
           \/ IsTwo(p, {"GET"}, "manifests", "GetManifest")
           \/ IsTwo(p, {"HEAD"}, "manifests", "HeadManifest")
           \/ IsTwo(p, {"PUT"}, "manifests", "PutManifest")
           \/ IsTwo(p, {"DELETE"}, "manifests", "DeleteManifest")
           \/ IsTwo(p, {"GET", "HEAD"}, "referrers", "GetReferrers")
           \/ IsThree(p, {"POST"}, "rest", "PostBlobUploads")
           \/ IsThree(p, {"GET", "HEAD"}, "one", "GetBlobUpload")
           \/ IsThree(p, {"PATCH"}, "one", "PatchBlobUpload")
           \/ IsThree(p, {"PUT"}, "one", "PutBlobUpload")
           \/ IsThree(p, {"DELETE"}, "one", "DeleteBlobUpload")
BY Zenon DEF OCIPatterns, IsTwo, IsThree

(* The handler of a path of two segments, and of three. *)
TwoHandler(method, k, h) ==
    \/ k = "blobs" /\ method = "GET" /\ h = "GetBlob"
    \/ k = "blobs" /\ method = "HEAD" /\ h = "HeadBlob"
    \/ k = "manifests" /\ method = "GET" /\ h = "GetManifest"
    \/ k = "manifests" /\ method = "HEAD" /\ h = "HeadManifest"
    \/ k = "manifests" /\ method = "PUT" /\ h = "PutManifest"
    \/ k = "manifests" /\ method = "DELETE" /\ h = "DeleteManifest"
    \/ k = "referrers" /\ method \in {"GET", "HEAD"} /\ h = "GetReferrers"

ThreeHandler(method, h) ==
    \/ method = "POST" /\ h = "PostBlobUploads"
    \/ method \in {"GET", "HEAD"} /\ h = "GetBlobUpload"
    \/ method = "PATCH" /\ h = "PatchBlobUpload"
    \/ method = "PUT" /\ h = "PutBlobUpload"
    \/ method = "DELETE" /\ h = "DeleteBlobUpload"

(* No two patterns with different handlers match one path. *)
LEMMA OCIMatch ==
    ASSUME NEW p \in OCIPatterns, NEW method, NEW path, Matches(p, method, path)
    PROVE  \/ Len(path) = 2 /\ TwoHandler(method, path[1], p.handler)
           \/ (Len(path) = 3 \/ Len(path) > 3) /\ ThreeHandler(method, p.handler)
<1>1. CASE IsTwo(p, {"GET"}, "blobs", "GetBlob")
  <2>1. /\ method \in {"GET"} /\ Len(path) = 2 /\ path[1] = "blobs"
        /\ p.handler = "GetBlob"
    BY <1>1, TwoTaken
  <2> QED BY <2>1 DEF TwoHandler
<1>2. CASE IsTwo(p, {"HEAD"}, "blobs", "HeadBlob")
  <2>1. /\ method \in {"HEAD"} /\ Len(path) = 2 /\ path[1] = "blobs"
        /\ p.handler = "HeadBlob"
    BY <1>2, TwoTaken
  <2> QED BY <2>1 DEF TwoHandler
<1>3. CASE IsTwo(p, {"GET"}, "manifests", "GetManifest")
  <2>1. /\ method \in {"GET"} /\ Len(path) = 2 /\ path[1] = "manifests"
        /\ p.handler = "GetManifest"
    BY <1>3, TwoTaken
  <2> QED BY <2>1 DEF TwoHandler
<1>4. CASE IsTwo(p, {"HEAD"}, "manifests", "HeadManifest")
  <2>1. /\ method \in {"HEAD"} /\ Len(path) = 2 /\ path[1] = "manifests"
        /\ p.handler = "HeadManifest"
    BY <1>4, TwoTaken
  <2> QED BY <2>1 DEF TwoHandler
<1>5. CASE IsTwo(p, {"PUT"}, "manifests", "PutManifest")
  <2>1. /\ method \in {"PUT"} /\ Len(path) = 2 /\ path[1] = "manifests"
        /\ p.handler = "PutManifest"
    BY <1>5, TwoTaken
  <2> QED BY <2>1 DEF TwoHandler
<1>6. CASE IsTwo(p, {"DELETE"}, "manifests", "DeleteManifest")
  <2>1. /\ method \in {"DELETE"} /\ Len(path) = 2 /\ path[1] = "manifests"
        /\ p.handler = "DeleteManifest"
    BY <1>6, TwoTaken
  <2> QED BY <2>1 DEF TwoHandler
<1>7. CASE IsTwo(p, {"GET", "HEAD"}, "referrers", "GetReferrers")
  <2>1. /\ method \in {"GET", "HEAD"} /\ Len(path) = 2 /\ path[1] = "referrers"
        /\ p.handler = "GetReferrers"
    BY <1>7, TwoTaken
  <2> QED BY <2>1 DEF TwoHandler
<1>8. CASE IsThree(p, {"POST"}, "rest", "PostBlobUploads")
  <2>1. /\ method \in {"POST"} /\ (Len(path) = 3 \/ Len(path) > 3)
        /\ p.handler = "PostBlobUploads"
    BY <1>8, Three
  <2> QED BY <2>1 DEF ThreeHandler
<1>9. CASE IsThree(p, {"GET", "HEAD"}, "one", "GetBlobUpload")
  <2>1. /\ method \in {"GET", "HEAD"} /\ (Len(path) = 3 \/ Len(path) > 3)
        /\ p.handler = "GetBlobUpload"
    BY <1>9, Three
  <2> QED BY <2>1 DEF ThreeHandler
<1>10. CASE IsThree(p, {"PATCH"}, "one", "PatchBlobUpload")
  <2>1. /\ method \in {"PATCH"} /\ (Len(path) = 3 \/ Len(path) > 3)
        /\ p.handler = "PatchBlobUpload"
    BY <1>10, Three
  <2> QED BY <2>1 DEF ThreeHandler
<1>11. CASE IsThree(p, {"PUT"}, "one", "PutBlobUpload")
  <2>1. /\ method \in {"PUT"} /\ (Len(path) = 3 \/ Len(path) > 3)
        /\ p.handler = "PutBlobUpload"
    BY <1>11, Three
  <2> QED BY <2>1 DEF ThreeHandler
<1>12. CASE IsThree(p, {"DELETE"}, "one", "DeleteBlobUpload")
  <2>1. /\ method \in {"DELETE"} /\ (Len(path) = 3 \/ Len(path) > 3)
        /\ p.handler = "DeleteBlobUpload"
    BY <1>12, Three
  <2> QED BY <2>1 DEF ThreeHandler
<1> QED BY <1>1, <1>2, <1>3, <1>4, <1>5, <1>6, <1>7, <1>8, <1>9, <1>10, <1>11, <1>12, Shapes


(* The route of a name followed by a path that one handler matches. *)
LEMMA Routed ==
    ASSUME NEW S, NEW name \in Seq(S), name # <<>>, name # <<NoSegment>>, NEW t \in Seq(S), Len(t) >= 2, t[1] \in Separator,
           \A i \in 2 .. Len(t) - 1 : t[i] \notin Separator,
           NEW method, NEW op, NEW p0 \in OCIPatterns, Matches(p0, method, t),
           \A p \in OCIPatterns : Matches(p, method, t) => p.handler = op
    PROVE  OCIRoute(method, name \o t) =
              Reached(op, name, IF op = "PostBlobUploads" THEN <<>> ELSE <<t[Len(t)]>>)
<1> DEFINE path == name \o t
           hits == {p \in OCIPatterns : Matches(p, method, t)}
           hit == CHOOSE p \in hits : TRUE
<1>1. Cuts(path) # {} /\ BestCut(path) = Len(name) + 1
  BY Cut
<1>2. RepoName(path) = name /\ Suffix(path) = t
  <2>1. Len(name) + 1 - 1 = Len(name)
    OBVIOUS
  <2> QED BY <1>1, <2>1, Split DEF RepoName, Suffix
<1>3. hits # {} /\ hit.handler = op
  OBVIOUS
<1>4. OCIRoute(method, path) =
        IF Cuts(path) = {} \/ name = <<NoSegment>> THEN Refused
        ELSE IF hits = {} THEN Refused
             ELSE Reached(hit.handler, name, IF hit.handler = "PostBlobUploads" THEN <<>> ELSE <<t[Len(t)]>>)
  BY <1>2 DEF OCIRoute
<1> HIDE DEF hits, hit
<1> QED BY <1>1, <1>3, <1>4

LEMMA RouteTwo ==
    ASSUME NEW S, NEW name \in Seq(S), name # <<>>, name # <<NoSegment>>,
           NEW k \in {"blobs", "manifests", "referrers"}, k \in S,
           NEW arg \in S, arg # NoSegment, NEW method, NEW op, TwoHandler(method, k, op)
    PROVE  OCIRoute(method, name \o <<k, arg>>) = Reached(op, name, <<arg>>)
<1> DEFINE t == <<k, arg>>
<1>1. t \in Seq(S) /\ Len(t) = 2 /\ t[1] = k /\ t[2] = arg
  OBVIOUS
<1>2. k \in Separator
  BY Zenon DEF Separator
<1>3. op # "PostBlobUploads"
  BY DEF TwoHandler
<1>4. \E p \in OCIPatterns : \E ms : IsTwo(p, ms, k, op) /\ method \in ms
  BY Zenon DEF OCIPatterns, IsTwo, TwoHandler
<1> HIDE DEF t
<1>5. PICK p0 \in OCIPatterns : Matches(p0, method, t)
  <2>1. PICK p0 \in OCIPatterns : \E ms : IsTwo(p0, ms, k, op) /\ method \in ms
    BY <1>4
  <2>2. Len(t) = 2 /\ t[1] = k /\ t[2] # NoSegment
    BY <1>1
  <2>3. Matches(p0, method, t)
    BY <2>1, <2>2, TwoFits
  <2> QED BY <2>3
<1>6. ASSUME NEW p \in OCIPatterns, Matches(p, method, t) PROVE p.handler = op
  <2>1. TwoHandler(method, k, p.handler)
    <3>1. ~(Len(t) = 3 \/ Len(t) > 3)
      BY <1>1
    <3> QED BY <1>1, <1>6, <3>1, OCIMatch
  <2> QED BY <2>1 DEF TwoHandler
<1>7. \A i \in 2 .. Len(t) - 1 : t[i] \notin Separator
  BY <1>1
<1>8. OCIRoute(method, name \o t) = Reached(op, name, IF op = "PostBlobUploads" THEN <<>> ELSE <<t[Len(t)]>>)
  <2>1. Len(t) >= 2 /\ t[1] \in Separator
    BY <1>1, <1>2
  <2>2. \A p \in OCIPatterns : Matches(p, method, t) => p.handler = op
    BY <1>6
  <2> QED BY <1>1, <1>5, <1>7, <2>1, <2>2, Routed
<1> QED BY <1>1, <1>3, <1>8 DEF t

LEMMA RouteThree ==
    ASSUME NEW S, NEW name \in Seq(S), name # <<>>, name # <<NoSegment>>, "blobs" \in S, "uploads" \in S,
           NEW arg \in S, NEW method, NEW op, ThreeHandler(method, op),
           op # "PostBlobUploads" => arg # NoSegment
    PROVE  OCIRoute(method, name \o <<"blobs", "uploads", arg>>) =
              Reached(op, name, IF op = "PostBlobUploads" THEN <<>> ELSE <<arg>>)
<1> DEFINE t == <<"blobs", "uploads", arg>>
<1>1. t \in Seq(S) /\ Len(t) = 3 /\ t[1] = "blobs" /\ t[2] = "uploads" /\ t[3] = arg
  OBVIOUS
<1>2. "blobs" \in Separator /\ "uploads" \notin Separator
  BY DEF Separator
<1> HIDE DEF t
<1>3. ASSUME op = "PostBlobUploads" PROVE \E p0 \in OCIPatterns : Matches(p0, method, t)
  <2>1. PICK p0 \in OCIPatterns : IsThree(p0, {"POST"}, "rest", op)
    BY <1>3, Zenon DEF OCIPatterns, IsThree
  <2>2. method \in {"POST"} /\ "rest" \in {"one", "rest"}
    BY <1>3 DEF ThreeHandler
  <2>3. Matches(p0, method, t)
    BY <1>1, <2>1, <2>2, Three
  <2> QED BY <2>3
<1>4. ASSUME op # "PostBlobUploads" PROVE \E p0 \in OCIPatterns : Matches(p0, method, t)
  <2>1. PICK p0 \in OCIPatterns : \E ms : IsThree(p0, ms, "one", op) /\ method \in ms
    BY <1>4, Zenon DEF OCIPatterns, IsThree, ThreeHandler
  <2>2. "one" \in {"one", "rest"} /\ t[3] # NoSegment
    BY <1>1, <1>4
  <2>3. Matches(p0, method, t)
    BY <1>1, <2>1, <2>2, Three
  <2> QED BY <2>3
<1>5. PICK p0 \in OCIPatterns : Matches(p0, method, t)
  BY <1>3, <1>4
<1>6. ASSUME NEW p \in OCIPatterns, Matches(p, method, t) PROVE p.handler = op
  <2>1. ThreeHandler(method, p.handler)
    <3>1. ~Len(t) = 2
      BY <1>1
    <3> QED BY <1>6, <3>1, OCIMatch
  <2> QED BY <2>1 DEF ThreeHandler
<1>7. ASSUME NEW i \in 2 .. Len(t) - 1 PROVE t[i] \notin Separator
  <2>1. i = 2
    BY <1>1
  <2> QED BY <1>1, <1>2, <2>1
<1>8. OCIRoute(method, name \o t) = Reached(op, name, IF op = "PostBlobUploads" THEN <<>> ELSE <<t[Len(t)]>>)
  <2>1. Len(t) >= 2 /\ t[1] \in Separator
    BY <1>1, <1>2
  <2>2. \A p \in OCIPatterns : Matches(p, method, t) => p.handler = op
    BY <1>6
  <2> QED BY <1>1, <1>5, <1>7, <2>1, <2>2, Routed
<1> QED BY <1>1, <1>8 DEF t
(* The outer router lets such a path through. *)
LEMMA BelowRepository ==
    ASSUME NEW S, NEW name \in Seq(S), name # <<>>, NEW t \in Seq(S), Len(t) >= 2,
           NEW method, method = "DELETE" => name[1] # "namespaces"
    PROVE  Route(method, name \o t) = OCIRoute(method, name \o t)
<1> DEFINE path == name \o t
<1>1. Len(path) > 2 /\ path[1] = name[1]
  BY Concat
<1>2. Len(<<NoSegment>>) = 1 /\ Len(<<"namespaces">>) = 1
  OBVIOUS
<1> HIDE DEF path
<1>3. path # <<NoSegment>>
  <2>1. CASE path = <<NoSegment>>
    <3>1. Len(path) = 1
      BY <1>2, <2>1, Zenon
    <3> QED BY <1>1, <3>1
  <2> QED BY <2>1
<1>4. path # <<"namespaces">>
  <2>1. CASE path = <<"namespaces">>
    <3>1. Len(path) = 1
      BY <1>2, <2>1, Zenon
    <3> QED BY <1>1, <3>1
  <2> QED BY <2>1
<1> QED BY <1>1, <1>3, <1>4 DEF Route, path

TwoOps == {"GetBlob", "HeadBlob", "GetManifest", "HeadManifest", "PutManifest", "DeleteManifest", "GetReferrers"}
ThreeOps == {"PostBlobUploads", "GetBlobUpload", "PatchBlobUpload", "PutBlobUpload", "DeleteBlobUpload"}

LEMMA Operations == Operation = TwoOps \cup ThreeOps \cup {"CreateNamespace", "DeleteNamespace", "BaseCheck"}
BY DEF Operation, TwoOps, ThreeOps

LEMMA TwoMeant ==
    ASSUME NEW S, {"blobs", "manifests", "referrers"} \subseteq S, NEW name \in Seq(S), name # <<>>,
           name # <<NoSegment>>, NEW arg \in S, arg # NoSegment, NEW op \in TwoOps, ~Shadowed(op, name)
    PROVE  Route(MethodOf(op), PathOf(op, name, arg)) = Meant(op, name, arg)
<1>1. PICK k \in {"blobs", "manifests", "referrers"} :
         PathOf(op, name, arg) = name \o <<k, arg>> /\ TwoHandler(MethodOf(op), k, op)
  BY DEF TwoOps, PathOf, MethodOf, TwoHandler
<1>2. Meant(op, name, arg) = Reached(op, name, <<arg>>)
  BY DEF Meant, TwoOps
<1>3. MethodOf(op) = "DELETE" => name[1] # "namespaces"
  BY DEF TwoOps, MethodOf, Shadowed
<1>4. OCIRoute(MethodOf(op), name \o <<k, arg>>) = Reached(op, name, <<arg>>)
  BY <1>1, RouteTwo
<1>5. <<k, arg>> \in Seq(S) /\ Len(<<k, arg>>) >= 2
  OBVIOUS
<1>6. Route(MethodOf(op), name \o <<k, arg>>) = OCIRoute(MethodOf(op), name \o <<k, arg>>)
  BY <1>3, <1>5, BelowRepository
<1> QED BY <1>1, <1>2, <1>4, <1>6

LEMMA ThreeMeant ==
    ASSUME NEW S, {"blobs", "uploads", NoSegment} \subseteq S, NEW name \in Seq(S), name # <<>>,
           name # <<NoSegment>>, NEW arg \in S, arg # NoSegment, NEW op \in ThreeOps, ~Shadowed(op, name)
    PROVE  Route(MethodOf(op), PathOf(op, name, arg)) = Meant(op, name, arg)
<1> DEFINE last == IF op = "PostBlobUploads" THEN NoSegment ELSE arg
           t == <<"blobs", "uploads", last>>
<1>1. PathOf(op, name, arg) = name \o t /\ ThreeHandler(MethodOf(op), op)
  BY DEF ThreeOps, PathOf, MethodOf, ThreeHandler
<1>2. Meant(op, name, arg) = Reached(op, name, IF op = "PostBlobUploads" THEN <<>> ELSE <<last>>)
  BY DEF Meant, ThreeOps
<1>3. MethodOf(op) = "DELETE" => name[1] # "namespaces"
  BY DEF ThreeOps, MethodOf, Shadowed
<1>4. last \in S /\ (op # "PostBlobUploads" => last # NoSegment)
  OBVIOUS
<1> HIDE DEF last
<1>5. OCIRoute(MethodOf(op), name \o t) = Reached(op, name, IF op = "PostBlobUploads" THEN <<>> ELSE <<last>>)
  BY <1>1, <1>4, RouteThree
<1>6. t \in Seq(S) /\ Len(t) >= 2
  BY <1>4
<1>7. Route(MethodOf(op), name \o t) = OCIRoute(MethodOf(op), name \o t)
  BY <1>3, <1>6, BelowRepository
<1> QED BY <1>1, <1>2, <1>5, <1>7

LEMMA OthersMeant ==
    ASSUME NEW S, "namespaces" \in S, NEW name \in Seq(S), name # <<>>, NEW arg,
           NEW op \in {"CreateNamespace", "DeleteNamespace", "BaseCheck"}
    PROVE  Route(MethodOf(op), PathOf(op, name, arg)) = Meant(op, name, arg)
<1>1. CASE op = "CreateNamespace"
  <2>1. MethodOf(op) = "POST" /\ PathOf(op, name, arg) = <<"namespaces">> /\ Meant(op, name, arg) = Reached(op, <<>>, <<>>)
    BY <1>1 DEF MethodOf, PathOf, Meant
  <2>2. Len(<<"namespaces">>) = 1
    OBVIOUS
  <2> QED BY <1>1, <2>1, <2>2 DEF Route
<1>2. CASE op = "BaseCheck"
  <2>1. MethodOf(op) = "GET" /\ PathOf(op, name, arg) = <<NoSegment>> /\ Meant(op, name, arg) = Reached(op, <<>>, <<>>)
    BY <1>2 DEF MethodOf, PathOf, Meant
  <2> QED BY <1>2, <2>1 DEF Route
<1>3. CASE op = "DeleteNamespace"
  <2> DEFINE path == <<"namespaces">> \o name
  <2>1. MethodOf(op) = "DELETE" /\ PathOf(op, name, arg) = path /\ Meant(op, name, arg) = Reached(op, <<>>, name)
    BY <1>3 DEF MethodOf, PathOf, Meant
  <2>2. Len(path) > 1 /\ path[1] = "namespaces" /\ Tail(path) = name
    OBVIOUS
  <2> HIDE DEF path
  <2> QED BY <1>3, <2>1, <2>2 DEF Route
<1> QED BY <1>1, <1>2, <1>3

(* Every operation of the API is routed to its handler, with its name and its     *)
(* argument: for every repository name whose components are not empty, every     *)
(* argument and every method.                                                   *)
THEOREM RouteMeant ==
    ASSUME NEW S, Separator \cup {"uploads", "namespaces", NoSegment} \subseteq S,
           NEW name \in Seq(S), name # <<>>, \A i \in DOMAIN name : name[i] # NoSegment,
           NEW arg \in S, arg # NoSegment, NEW op \in Operation
    PROVE  Shadowed(op, name) \/ Route(MethodOf(op), PathOf(op, name, arg)) = Meant(op, name, arg)
<1>1. /\ {"blobs", "manifests", "referrers"} \subseteq S
      /\ {"blobs", "uploads", NoSegment} \subseteq S
      /\ "namespaces" \in S
  BY DEF Separator
<1>0. name # <<NoSegment>>
  <2>1. 1 \in DOMAIN name /\ name[1] # NoSegment
    OBVIOUS
  <2>2. <<NoSegment>>[1] = NoSegment
    OBVIOUS
  <2> QED BY <2>1, <2>2, Zenon
<1>2. CASE op \in TwoOps
  BY <1>0, <1>1, <1>2, TwoMeant
<1>3. CASE op \in ThreeOps
  BY <1>0, <1>1, <1>3, ThreeMeant
<1>4. CASE op \in {"CreateNamespace", "DeleteNamespace", "BaseCheck"}
  BY <1>1, <1>4, OthersMeant
<1> QED BY <1>2, <1>3, <1>4, Operations
=============================================================================
