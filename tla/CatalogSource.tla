--------------------------- MODULE CatalogSource ---------------------------
(***************************************************************************)
(* The client of the catalog service: a request with its redirects, the    *)
(* listing of builds, the manifest of one, and what a country gets of it.  *)
(* The results are those of Loops: {} where the code throws.               *)
(*                                                                         *)
(* The service is a function from addresses to responses; an address it    *)
(* has not is one that cannot be parsed or reached. Build names have one   *)
(* format, in which their order is that of numbers; any other entry of a   *)
(* listing is 0. The text of a response is what it says.                   *)
(***************************************************************************)
EXTENDS Integers, Sequences, FiniteSets, Loops

LOCAL INSTANCE SequencesExt
LOCAL INSTANCE FiniteSetsExt

CONSTANTS
    CountryCodes,   \* names of countries, as two small letters
    Trimmed         \* any code as written, without blanks and capitals

MaxRedirects == 5
MaxListingPages == 32
MaxListingBytes == 2 * 1024 * 1024
MaxManifestBytes == 4 * 1024 * 1024
MaxPacks == 10000
MaxPackBytes == 134217728
MaxDownloadUrls == 8

-------------------------------- (* Requests *) -----------------------------

\* Every address on the way must be secure.
WithConnection(service, url) ==
    LET Asked(s) ==
            IF s.at \in DOMAIN service THEN {r \in {service[s.at]} : r.secure} ELSE {}
        Answered(s, r) ==
            CASE r.status = "redirect" -> {[s EXCEPT !.at = to] : to \in r.location}
              [] r.status = "ok" -> {[s EXCEPT !.response = {r}]}
              [] OTHER -> {}
        Request(s) == IF s.response # {} THEN {s} ELSE UNION {Answered(s, r) : r \in Asked(s)}
    IN  UNION {s.response : s \in Try([at |-> url, response |-> {}], Request, MaxRedirects + 1)}

\* A declared length of -1 is unknown.
GetText(service, url, limit) ==
    {r.text : r \in {x \in WithConnection(service, url) :
                        x.declared <= limit /\ x.length <= limit}}

Listing(token) == <<"listing", token>>
ManifestOf(build) == <<"manifest", build>>

\* The newest build of a listing that ends within the pages allowed.
LatestBuild(service) ==
    LET Read(s, page) ==
            [token |-> page.next, latest |-> Max({s.latest} \cup page.builds), over |-> page.next = {}]
        Page(s) == IF s.over THEN {s}
                   ELSE {Read(s, page) : page \in GetText(service, Listing(s.token), MaxListingBytes)}
        start == [token |-> {}, latest |-> 0, over |-> FALSE]
    IN  {s.latest : s \in {x \in Try(start, Page, MaxListingPages) : x.over /\ x.latest # 0}}

------------------------------- (* The manifest *) --------------------------

CountriesOf(entry) == {Trimmed[code] : code \in entry.codes} \ {""}

Valid(entry) ==
    /\ entry.wellNamed
    /\ entry.size \in 1 .. MaxPackBytes /\ entry.compressed \in 1 .. MaxPackBytes
    /\ Len(entry.secureUrls) \in 1 .. MaxDownloadUrls
    /\ \A i \in DOMAIN entry.secureUrls : entry.secureUrls[i]
    /\ CountriesOf(entry) # {} /\ CountriesOf(entry) \subseteq CountryCodes

\* Of an entry that is no shard nothing is looked at.
Parse(entries) ==
    LET shards == SelectSeq(entries, LAMBDA e : e.type = "shard")
        Pack(entry) == [name |-> entry.name, size |-> entry.size, countries |-> CountriesOf(entry)]
    IN  IF /\ Len(entries) <= MaxPacks
           /\ \A i \in DOMAIN shards : Valid(shards[i])
           /\ \A i, j \in DOMAIN shards : shards[i].name = shards[j].name => i = j
        THEN {[i \in DOMAIN shards |-> Pack(shards[i])]}
        ELSE {}

Manifest(service, build) ==
    UNION {Parse(entries) : entries \in GetText(service, ManifestOf(build), MaxManifestBytes)}

\* Mutant: a shard that does not fit is left out, and those after it are tried.
SelectWhatFits(packs, country, cap) ==
    LET Add(s, pack) ==
            IF country \in pack.countries /\ \A most \in cap : s.total + pack.size <= most
            THEN [chosen |-> Append(s.chosen, pack), total |-> s.total + pack.size]
            ELSE s
    IN  FoldLeft(Add, [chosen |-> <<>>, total |-> 0], packs).chosen

\* The country's shards in order, up to the first beyond the cap, if any.
Select(packs, country, cap) ==
    LET Add(s, pack) ==
            IF s.full \/ country \notin pack.countries THEN s
            ELSE IF \E most \in cap : s.total + pack.size > most THEN [s EXCEPT !.full = TRUE]
            ELSE [s EXCEPT !.chosen = Append(@, pack), !.total = @ + pack.size]
    IN  FoldLeft(Add, [chosen |-> <<>>, total |-> 0, full |-> FALSE], packs).chosen
=============================================================================
