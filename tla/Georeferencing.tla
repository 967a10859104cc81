--------------------------- MODULE Georeferencing ---------------------------
(***************************************************************************)
(* What opening a GeoTIFF makes of its tags: the affine transform, the     *)
(* band calibration, the alpha sample, the chunk layout and the coordinate *)
(* reference system (raster/metadata.rs and parse_metadata_and_layout of   *)
(* raster/geotiff.rs).  A file is a record of the tags the code reads; a   *)
(* missing tag is None.  Numbers in keys are small integers; lengths are   *)
(* in millimetres per unit, so that the metre is 1000.                     *)
(*                                                                         *)
(* That part ends with the promise of extract_crs: whatever a writer       *)
(* stored, the definition read back is the declared one or none.  The      *)
(* second part is the transformer a definition then gets.                  *)
(***************************************************************************)
EXTENDS Integers, Sequences, FiniteSets, FiniteSetsExt, SequencesExt

CONSTANTS None,      \* an absent tag, or no definition
          Failed     \* an error return

Metre == 1000
Foot == 305
UsFoot == 306
UserDefined == 32767

\* Option::or_else
Or(a, b) == IF a = None THEN b ELSE a

-----------------------------------------------------------------------------
(* The affine transform, in half units: x = c0 + a*col + b*row and          *)
(* y = f0 + d*col + e*row.                                                  *)

\* ModelTransformationTag wins over tiepoint and scale; a point raster's
\* origin is moved half a pixel; a singular transform is refused.
ExtractGeotransform(t) ==
    LET FromTiepoint == [a |-> 2 * t.scale[1], b |-> 0, d |-> 0, e |-> -2 * t.scale[2],
                         c0 |-> 2 * (t.tiepoint[3] - t.tiepoint[1] * t.scale[1]),
                         f0 |-> 2 * (t.tiepoint[4] + t.tiepoint[2] * t.scale[2])]
        Given == IF t.matrix # None THEN t.matrix
                 ELSE IF t.tiepoint # None /\ t.scale # None THEN FromTiepoint
                 ELSE Failed
        Point(g) == [g EXCEPT !.c0 = @ - (g.a + g.b) \div 2, !.f0 = @ - (g.d + g.e) \div 2]
    IN IF Given = Failed THEN Failed
       ELSE LET gt == IF t.rasterType = 2 THEN Point(Given) ELSE Given
            IN IF gt.a * gt.e = gt.b * gt.d THEN Failed ELSE gt

\* A band's calibration: the last SCALE and OFFSET items that name its sample.
\* An item names a role, a sample (None for the whole dataset) and a value.
Identity == [scale |-> 1, offset |-> 0]

ParseGdalBandScaling(items, samples) ==
    LET ForBand == SelectSeq(items, LAMBDA i : i.role \in {"scale", "offset"} /\ i.sample # None)
        Refused == \E i \in Range(ForBand) :
                       \/ i.sample \notin 0 .. samples - 1
                       \/ i.value = None
                       \/ i.role = "scale" /\ i.value = 0
        Put(bands, i) == [bands EXCEPT ![i.sample + 1] =
                              IF i.role = "scale" THEN [@ EXCEPT !.scale = i.value]
                              ELSE [@ EXCEPT !.offset = i.value]]
        Bands == FoldLeft(Put, [s \in 1 .. samples |-> Identity], ForBand)
    IN IF Refused THEN Failed
       ELSE IF Range(Bands) = {Identity} THEN <<>> ELSE Bands

\* The extra samples are the last ones of a pixel; the first one marked as
\* associated (1) or unassociated (2) alpha is the alpha sample.
ExtractAlphaSample(extra, samples) ==
    LET First == SelectInSeq(extra, LAMBDA kind : kind \in {1, 2})
    IN IF extra = None THEN None
       ELSE IF Len(extra) > samples \/ First = 0 THEN None
       ELSE samples - Len(extra) + First - 1

-----------------------------------------------------------------------------
(* The coordinate reference system.  A definition is a projection, its      *)
(* parameters, the false easting in metres * 1000, a datum and a unit.      *)

\* LinearUnit::from_factor: any positive number of metres.
LinearUnit(factor) == IF factor = None THEN None ELSE IF factor > 0 THEN factor ELSE None

ProjectedProjString(proj, params, falseEasting, datum, unit) ==
    [proj |-> proj, params |-> params, x_0 |-> falseEasting * unit, datum |-> datum, unit |-> unit]

\* GeoKeys that hold a code, and GeoKeys that hold an index into the doubles.
Short(t, key) == IF key \in DOMAIN t.short THEN t.short[key] ELSE None
Double(t, key) ==
    IF key \notin DOMAIN t.index THEN None
    ELSE IF t.index[key] + 1 \in DOMAIN t.doubles THEN t.doubles[t.index[key] + 1] ELSE None

Datum(t) ==
    LET crs == Short(t, "GeodeticCrs")
        datum == Short(t, "GeodeticDatum")
    IN CASE crs = 4326 \/ (crs \in {None, UserDefined} /\ datum = 6326) -> "WGS84"
         [] crs = 4269 \/ (crs \in {None, UserDefined} /\ datum = 6269) -> "NAD83"
         [] OTHER -> None

ProjectedUnit(t) ==
    LET code == Short(t, "LinearUnits")
    IN CASE code \in {None, 9001} -> Metre
         [] code = 9002 -> Foot
         [] code = 9003 -> UsFoot
         [] code = UserDefined -> LinearUnit(Double(t, "LinearUnitSize"))
         [] OTHER -> None

\* The parameters of a method, None in the place of each one that is missing,
\* and its false easting (zero when missing).
KeyParams(t, method) ==
    IF method = 1
    THEN <<Double(t, "NatOriginLat"), Double(t, "NatOriginLong"), Double(t, "ScaleAtNatOrigin")>>
    ELSE <<Double(t, "StdParallel1"), Double(t, "StdParallel2"),
           Or(Double(t, "FalseOriginLat"), Double(t, "NatOriginLat")),
           Or(Double(t, "FalseOriginLong"), Double(t, "NatOriginLong"))>>

KeyFalseEasting(t, method) ==
    IF method = 1 THEN Or(Double(t, "FalseEasting"), 0)
    ELSE Or(Or(Double(t, "FalseOriginEasting"), Double(t, "FalseEasting")), 0)

UserDefinedGeokeysToProj(t) ==
    LET method == Short(t, "ProjMethod")
    IN IF \/ Datum(t) = None
          \/ Short(t, "PrimeMeridian") \notin {None, 8901}
          \/ Short(t, "AngularUnits") \notin {None, 9102}
          \/ ProjectedUnit(t) = None
          \/ method \notin {1, 8, 11}
          \/ None \in Range(KeyParams(t, method))
       THEN None
       ELSE ProjectedProjString(CASE method = 1 -> "tmerc" [] method = 8 -> "lcc" [] OTHER -> "aea",
                                KeyParams(t, method), KeyFalseEasting(t, method), Datum(t), ProjectedUnit(t))

\* The PROJCS element of the ASCII tag: its datum's name, prime meridian, first
\* (angular) and last (linear) unit, shift and parameters by name.
WktParam(w, name) == IF name \in DOMAIN w.params THEN w.params[name] ELSE None

WktParams(w) ==
    CASE w.projection = "TRANSVERSE_MERCATOR" ->
           <<WktParam(w, "LATITUDE_OF_ORIGIN"), WktParam(w, "CENTRAL_MERIDIAN"), WktParam(w, "SCALE_FACTOR")>>
      [] w.projection \in {"ALBERS", "LAMBERT_CONFORMAL_CONIC"} ->
           <<WktParam(w, "STANDARD_PARALLEL_1"), WktParam(w, "STANDARD_PARALLEL_2"),
             Or(WktParam(w, "LATITUDE_OF_ORIGIN"), WktParam(w, "LATITUDE_OF_CENTER")),
             Or(WktParam(w, "CENTRAL_MERIDIAN"), WktParam(w, "LONGITUDE_OF_CENTER"))>>
      [] OTHER -> <<None>>

ParseWktOrAsciiToProj(w) ==
    IF \/ \E x \in Range(w.towgs84) : x # 0
       \/ w.datum \notin {"WGS84", "NAD83"}
       \/ w.meridian \notin {None, 0}
       \/ w.angular # "degree"
       \/ LinearUnit(w.linear) = None
       \/ WktParam(w, "FALSE_EASTING") = None
       \/ None \in Range(WktParams(w))
    THEN None
    ELSE ProjectedProjString(CASE w.projection = "TRANSVERSE_MERCATOR" -> "tmerc"
                               [] w.projection = "ALBERS" -> "aea"
                               [] OTHER -> "lcc",
                             WktParams(w), WktParam(w, "FALSE_EASTING"), w.datum, LinearUnit(w.linear))

\* A GeoKey shift that is not all zeros, or that the doubles do not hold.
NonzeroShift(t) ==
    LET at == Double(t, "ToWgs84")
        idx == t.index["ToWgs84"]
    IN /\ t.shiftCount > 0
       /\ \/ "ToWgs84" \notin DOMAIN t.index
          \/ idx + t.shiftCount > Len(t.doubles)
          \/ \E k \in idx + 1 .. idx + t.shiftCount : t.doubles[k] # 0

\* A result is [epsg |-> .., proj |-> ..], None where there is none.
ExtractCrs(t) ==
    LET Code(key) == IF Short(t, key) \in {None, 0, UserDefined} THEN None ELSE Short(t, key)
        projected == {"ProjectedCrs", "ProjMethod"} \cap DOMAIN t.short # {}
        FromKeys == IF projected THEN UserDefinedGeokeysToProj(t) ELSE None
        FromText == IF t.ascii = None THEN None ELSE ParseWktOrAsciiToProj(t.ascii)
    IN CASE Code("ProjectedCrs") # None -> [epsg |-> Code("ProjectedCrs"), proj |-> None]
         [] OTHER ->
              IF projected /\ NonzeroShift(t) THEN [epsg |-> None, proj |-> None]
              ELSE [epsg |-> IF projected \/ FromText # None THEN None ELSE Code("GeodeticCrs"),
                    proj |-> Or(FromKeys, FromText)]

\* The whole of parse_metadata_and_layout: the metadata and layout of a file,
\* or the error it is refused with.
Layout(t, maxChunks) ==
    LET DivCeil(n, d) == (n + d - 1) \div d
        across == DivCeil(t.width, t.chunkWidth)
        down == DivCeil(t.height, t.chunkHeight)
    IN IF \/ ExtractGeotransform(t) = Failed
          \/ t.planar # 1 /\ t.samples > 1
          \/ ParseGdalBandScaling(t.items, t.samples) = Failed
          \/ 0 \in {t.chunkWidth, t.chunkHeight}
       THEN Failed
       ELSE IF \/ across * down > maxChunks
               \/ {t.predictor, t.format, t.photometric} \cap {"unknown"} # {}
               \/ t.offsets # None /\ t.offsets = t.bytes /\ t.offsets < across * down
       THEN Failed
       ELSE [gt |-> ExtractGeotransform(t), crs |-> ExtractCrs(t),
             scaling |-> ParseGdalBandScaling(t.items, t.samples),
             alpha |-> ExtractAlphaSample(t.extra, t.samples), chunks |-> across * down,
             \* arrays of different lengths leave every chunk to the standard decoder
             direct |-> t.offsets # None /\ t.offsets = t.bytes]

-----------------------------------------------------------------------------
(* Writers (external).  A declared system: a datum, a shift, the units, a   *)
(* method with its parameters p1 .. p4 and a false easting fe.  The ways it *)
(* is written: by code, as user-defined keys, in older keys, or as text.    *)

Projection == [tm |-> "tmerc", lcc |-> "lcc", aea |-> "aea", other |-> "stere"]
MethodCode == [tm |-> 1, lcc |-> 8, aea |-> 11, other |-> 10]

Meaning(c) ==
    [proj |-> Projection[c.method], datum |-> c.datum, unit |-> c.unit, x_0 |-> c.fe * c.unit,
     params |-> IF c.method = "tm" THEN <<c.lat, c.lon, c.k>> ELSE <<c.p1, c.p2, c.lat, c.lon>>]

\* Only these systems have a PROJ definition the reader may return.
Plain(c) == c.datum # "OTHER" /\ c.meridian = 0 /\ c.angular = "degree" /\ c.shift = 0 /\ c.method # "other"

WriteText(c) ==
    [datum |-> c.datum, meridian |-> c.meridian, angular |-> c.angular, linear |-> c.unit,
     towgs84 |-> <<0, 0, c.shift>>,
     projection |-> CASE c.method = "tm" -> "TRANSVERSE_MERCATOR"
                     [] c.method = "lcc" -> "LAMBERT_CONFORMAL_CONIC"
                      [] c.method = "aea" -> "ALBERS" [] OTHER -> "STEREOGRAPHIC",
     params |-> [FALSE_EASTING |-> c.fe, STANDARD_PARALLEL_1 |-> c.p1, STANDARD_PARALLEL_2 |-> c.p2,
                 LATITUDE_OF_ORIGIN |-> c.lat, CENTRAL_MERIDIAN |-> c.lon, SCALE_FACTOR |-> c.k]]

\* The doubles in order, the shift first, and the keys that index them; `old`
\* writers use the natural-origin keys for the conics too.
WriteKeys(c, old, byDatum) ==
    LET nat == old \/ c.method = "tm"
        origin == IF nat THEN <<"NatOriginLat", "NatOriginLong", "FalseEasting">>
                  ELSE <<"FalseOriginLat", "FalseOriginLong", "FalseOriginEasting">>
        names == <<"ToWgs84", "Shift2", "Shift3", "StdParallel1", "StdParallel2">> \o origin
                   \o <<"ScaleAtNatOrigin", "LinearUnitSize">>
        unit == CASE c.unit = Metre -> 9001 [] c.unit = Foot -> 9002
                  [] c.unit = UsFoot -> 9003 [] OTHER -> UserDefined
        geodetic == IF byDatum
                    THEN [GeodeticCrs |-> UserDefined,
                          GeodeticDatum |-> CASE c.datum = "WGS84" -> 6326
                                              [] c.datum = "NAD83" -> 6269 [] OTHER -> 6267]
                    ELSE [GeodeticCrs |-> CASE c.datum = "WGS84" -> 4326
                                          [] c.datum = "NAD83" -> 4269 [] OTHER -> 4267]
        common == [ProjectedCrs |-> UserDefined, ProjMethod |-> MethodCode[c.method], LinearUnits |-> unit,
                   PrimeMeridian |-> IF c.meridian = 0 THEN 8901 ELSE UserDefined,
                   AngularUnits |-> IF c.angular = "degree" THEN 9102 ELSE 9101]
    IN [short |-> [k \in DOMAIN common \cup DOMAIN geodetic |->
                       IF k \in DOMAIN common THEN common[k] ELSE geodetic[k]],
        doubles |-> <<0, 0, c.shift, c.p1, c.p2, c.lat, c.lon, c.fe, c.k, c.unit>>,
        index |-> [n \in Range(names) |-> CHOOSE i \in 0 .. 9 : names[i + 1] = n],
        shiftCount |-> 3, ascii |-> None]

\* What a file holds: keys, text, or both; a text may come with keys that only
\* say that the system is projected.
Written(c, form) ==
    LET keys == WriteKeys(c, form \in {"old", "oldText"}, form = "datum")
    IN CASE form \in {"keys", "old", "datum"} -> keys
         [] form = "oldText" -> [keys EXCEPT !.ascii = WriteText(c)]
         [] form = "truncated" -> [keys EXCEPT !.doubles = SubSeq(@, 1, 8)]
         [] form = "text" -> [keys EXCEPT !.ascii = WriteText(c), !.shiftCount = 0,
                                          !.short = [ProjectedCrs |-> UserDefined]]
         [] form = "code" -> [keys EXCEPT !.short = [k \in DOMAIN @ |-> IF k = "ProjectedCrs" THEN 32610 ELSE @[k]]]
         [] OTHER -> [keys EXCEPT !.short = [GeodeticCrs |-> 4326], !.shiftCount = 0]

\* A definition that is read back is the declared one, and one that the reader
\* supports is read back from every complete form (extract_crs: "rather than
\* receive a silently wrong definition"; projected is never geographic).
CrsAsDeclared(c, form) ==
    LET got == ExtractCrs(Written(c, form))
    IN CASE form = "code" -> got = [epsg |-> 32610, proj |-> None]
         [] form = "geographic" -> got = [epsg |-> 4326, proj |-> None]
         [] OTHER -> /\ got.epsg = None
                     /\ got.proj # None => Plain(c) /\ got.proj = Meaning(c)
                     /\ Plain(c) /\ form # "truncated" => got.proj # None

\* The tiepoint of a point raster is the centre of a pixel, that of an area
\* raster its corner.
TiepointPlaced(t) ==
    LET gt == ExtractGeotransform(t)
        half == IF t.rasterType = 2 THEN 1 ELSE 0
        At(u, c, r) == 2 * u.c0 + u.a * (2 * c + half) + u.b * (2 * r + half)
        AtY(u, c, r) == 2 * u.f0 + u.d * (2 * c + half) + u.e * (2 * r + half)
    IN (gt # Failed /\ t.matrix = None) =>
           /\ At(gt, t.tiepoint[1], t.tiepoint[2]) = 4 * t.tiepoint[3]
           /\ AtY(gt, t.tiepoint[1], t.tiepoint[2]) = 4 * t.tiepoint[4]

-----------------------------------------------------------------------------
(***************************************************************************)
(* Which transformer a coordinate system gets (crs/transformer.rs): one of *)
(* three closed-form fast paths, or proj4rs with or without a certificate  *)
(* for its bounds.  The transformers' arithmetic is not modelled; what is  *)
(* modelled is that no parameter of a definition is dropped on the way.    *)
(*                                                                         *)
(* A definition is a sequence of tokens [key, value, plain]; plain is      *)
(* FALSE when the token has an upper-case key or no leading '+'.  A        *)
(* numeric value is "std" (the value the fast path assumes), "other" or    *)
(* "bad" (does not parse to a finite number; a quoted number is one).      *)
(* "modifier" stands for the keys that no fast path knows (geoc, lon_wrap, *)
(* over, ...).                                                             *)
(***************************************************************************)

Absent == "absent"

\* tokenize_proj_string lowers the case and keeps the LAST duplicate.
Get(def, key) ==
  LET at == {i \in DOMAIN def : def[i].key = key} IN
  IF at = {} THEN Absent ELSE def[Max(at)].value

Has(def, key) == Get(def, key) # Absent
Keys(def) == {def[i].key : i \in DOMAIN def}

NeutralKeys == {"proj", "no_defs", "wktext", "type"}

FastPathAccepts(def, keys) ==
  \A key \in Keys(def) :
    CASE key = "towgs84" -> Get(def, key) = "zero"
      [] key = "nadgrids" -> Get(def, key) = "null"
      [] key = "units" -> Get(def, key) = "m"
      [] key = "to_meter" -> Get(def, key) = "std"
      [] key = "pm" -> Get(def, key) \in {"greenwich", "zero"}
      [] OTHER -> key \in NeutralKeys \cup keys

\* parse_opt_f64: absent takes the default, malformed takes the fast path away.
Standard(def, key) == Get(def, key) \in {Absent, "std"}
Parses(def, key) == Get(def, key) \in {Absent, "std", "other"}

LonglatFast(def) ==
  /\ Get(def, "datum") \in {Absent, "wgs84", "grs80", "nad83"}
  /\ Get(def, "ellps") \in {Absent, "wgs84", "grs80"}
  /\ Standard(def, "a") /\ Standard(def, "rf")
  /\ FastPathAccepts(def, {"datum", "ellps", "a", "rf"})

\* Wrong: the alias k_0 is not looked at when k is there.
ScaleStandardFirst(def) ==
  IF Has(def, "k") THEN Get(def, "k") = "std" ELSE Standard(def, "k_0")

\* k and k_0 are aliases: if both are given they have to agree.
ScaleStandard(def) ==
  LET k == Get(def, "k") k0 == Get(def, "k_0") IN
  CASE k = Absent -> k0 \in {Absent, "std"}
    [] k0 = Absent -> k = "std"
    [] OTHER -> k = "std" /\ k0 = "std"

MercatorFast(def) ==
  /\ Get(def, "a") = "std"
  /\ \/ Get(def, "b") = "std"
     \/ /\ ~Has(def, "b") /\ ~Has(def, "rf") /\ ~Has(def, "f")
        /\ Get(def, "ellps") \in {Absent, "sphere"}
  /\ \A key \in {"lon_0", "x_0", "y_0", "lat_ts"} : Standard(def, key)
  /\ ScaleStandard(def)
  /\ FastPathAccepts(def, {"a", "b", "ellps", "lon_0", "x_0", "y_0", "k", "k_0", "lat_ts"})

AlbersFast(def) ==
  /\ FastPathAccepts(def, {"lat_1", "lat_2", "lat_0", "lon_0", "x_0", "y_0",
                           "ellps", "datum", "a", "rf", "f"})
  /\ Parses(def, "a") /\ Parses(def, "rf") /\ Parses(def, "f")
  /\ Get(def, "ellps") \in {Absent, "grs80", "wgs84"}
  /\ Get(def, "datum") \in {Absent, "nad83", "wgs84"}
  /\ \/ Has(def, "ellps") \/ Has(def, "datum")
     \/ /\ Get(def, "a") = "std"
        /\ \/ Get(def, "rf") = "std"
           \/ ~Has(def, "rf") /\ Get(def, "f") = "std"
  /\ Has(def, "lat_1") /\ Parses(def, "lat_1") /\ Parses(def, "lat_2")
  /\ Parses(def, "lat_0") /\ Has(def, "lon_0") /\ Parses(def, "lon_0")
  /\ Parses(def, "x_0") /\ Parses(def, "y_0")
  \* opposite parallels make the cone constant zero
  /\ ~(Get(def, "lat_1") = "std" /\ Get(def, "lat_2") = "opposite")

-----------------------------------------------------------------------------
\* proj4rs (external) reads keys as they are written and keeps the FIRST
\* duplicate of a key.
First(def, key) ==
  LET at == {i \in DOMAIN def : def[i].key = key /\ def[i].plain} IN
  IF at = {} THEN Absent ELSE def[Min(at)].value

Geographic(def) == First(def, "proj") \in {"longlat", "latlong"}

\* The certificate of TmCertificate::new: the scale and false easting it
\* records, or "none".
NoCertificate == [k0 |-> "none", x0 |-> "none"]
Certificate(def) ==
  IF \/ First(def, "proj") \notin {"utm", "etmerc", "tmerc"}
     \/ \E i \in DOMAIN def : ~def[i].plain \/ def[i].value = ""
     \/ \E i, j \in DOMAIN def : i # j /\ def[i].key = def[j].key
     \/ Keys(def) \cap {"approx", "a", "b", "rf", "f", "es", "e", "r", "r_a"} # {}
     \/ Get(def, "ellps") = "sphere"
     \/ Get(def, "algo") \notin {Absent, "poder_engsager"}
     \/ Get(def, "towgs84") \in {"huge", "bad"}
     \/ Has(def, "axis")
  THEN NoCertificate
  ELSE IF First(def, "proj") = "utm" THEN [k0 |-> "utm", x0 |-> "utm"]
  ELSE LET k == IF Has(def, "k0") THEN Get(def, "k0") ELSE Get(def, "k") IN
       IF k = "bad" \/ Get(def, "x_0") = "bad" THEN NoCertificate
       ELSE [k0 |-> IF k = Absent THEN "std" ELSE k,
             x0 |-> IF Has(def, "x_0") THEN Get(def, "x_0") ELSE "std"]

\* from_epsg_code: the built-in systems, with the zones of their families.
FromEpsgCode(code) ==
  CASE code \in {4326, 4269} -> [path |-> "wgs84"]
    [] code \in {3857, 900913, 3785} -> [path |-> "mercator"]
    [] code \in {5070, 3338} -> [path |-> "albers"]
    [] code \in 32601 .. 32660 -> [path |-> "utm", zone |-> code - 32600]
    [] code \in 32701 .. 32760 -> [path |-> "utm", zone |-> 32700 - code]
    [] code \in 23028 .. 23038 -> [path |-> "utm", zone |-> code - 23000]
    [] code \in 25828 .. 25838 -> [path |-> "utm", zone |-> code - 25800]
    [] code \in 7846 .. 7859 -> [path |-> "utm", zone |-> 7800 - code]
    [] code \in 31466 .. 31469 -> [path |-> "tmerc", lon0 |-> 3 * (code - 31464)]
    [] code \in {3413, 3031} -> [path |-> "polar"]
    [] code \in {27700, 28992, 2154, 3035, 6933} -> [path |-> "proj4"]
    [] OTHER -> [path |-> "error"]

\* The code of +init=epsg:NNNN; any other +init is left to proj4rs.
InitCode(def) ==
  LET init == Get(def, "init") IN
  IF init = "epsg:4326" THEN 4326 ELSE IF init = "epsg:32610" THEN 32610 ELSE None

\* from_proj_string: grid shifts are refused, then a code is taken without a look
\* at the other tokens, then the fast paths are tried.
FromProjString(def) ==
  LET kind == Get(def, "proj")
      code == InitCode(def)
  IN  IF Get(def, "nadgrids") = "grid" \/ Get(def, "datum") = "nad27" THEN [path |-> "error"]
      ELSE IF code # None THEN FromEpsgCode(code)
      ELSE IF kind \in {"longlat", "latlong"} /\ LonglatFast(def) THEN [path |-> "wgs84"]
      ELSE IF kind = "merc" /\ MercatorFast(def) THEN [path |-> "mercator"]
      ELSE IF kind = "aea" /\ AlbersFast(def) THEN [path |-> "albers"]
      ELSE IF ~Geographic(def) /\ First(def, "pm") \notin {Absent, "greenwich", "zero"}
           THEN [path |-> "error"]
      ELSE [path |-> "proj4",
            framed |-> Geographic(def),      \* the wrapper applies +axis and +pm
            certificate |-> Certificate(def)]

\* from_crs_or_epsg: the code of the file wins over its string; a string that
\* is itself a code names one.
FromCrsOrEpsg(epsg, def) ==
  CASE epsg # Absent -> FromEpsgCode(epsg)
    [] def # Absent /\ def.code # Absent -> FromEpsgCode(def.code)
    [] def # Absent -> FromProjString(def.tokens)
    [] OTHER -> [path |-> "not detected"]

\* GeoFrame: source order to (east, north) and back.
Normalize(axis, pair) ==
  LET Along(dirs) == {i \in 1 .. 2 : axis[i] \in dirs}
      Value(dirs, minus, default) ==
        IF Along(dirs) = {} THEN default
        ELSE LET i == Max(Along(dirs)) IN IF axis[i] = minus THEN -pair[i] ELSE pair[i]
  IN  <<Value({"e", "w"}, "w", pair[1]), Value({"n", "s"}, "s", pair[2])>>

Denormalize(axis, pair) ==
  [i \in 1 .. 2 |-> CASE axis[i] = "e" -> pair[1] [] axis[i] = "w" -> -pair[1]
                      [] axis[i] = "n" -> pair[2] [] axis[i] = "s" -> -pair[2]
                      [] OTHER -> pair[i]]

-----------------------------------------------------------------------------
\* The reference: what a definition means to PROJ when, of a parameter that is
\* given twice, the last one counts and case does not.  An explicit axis or
\* flattening wins over a named ellipsoid, that over the ellipsoid of a datum.

Explicit(def) == {Get(def, key) : key \in {"a", "rf", "f"}} \ {Absent}

Ellipsoid(def) ==
  CASE "other" \in Explicit(def) \/ "bad" \in Explicit(def) -> "other"
    [] Get(def, "b") = "std" \/ (Has(def, "a") /\ ~Has(def, "rf") /\ ~Has(def, "f")
                                 /\ ~Has(def, "ellps") /\ ~Has(def, "datum")) -> "sphere"
    [] Has(def, "b") -> "other"
    [] Has(def, "ellps") -> IF Get(def, "ellps") \in {"wgs84", "grs80"} THEN "std"
                            ELSE IF Get(def, "ellps") = "sphere" THEN "sphere" ELSE "other"
    [] Has(def, "datum") -> IF Get(def, "datum") \in {"wgs84", "nad83", "grs80"} THEN "std" ELSE "other"
    [] OTHER -> "std"

ShiftFree(def) ==
  /\ Get(def, "nadgrids") # "grid"
  /\ IF Has(def, "towgs84") THEN Get(def, "towgs84") = "zero"
     ELSE Get(def, "datum") \in {Absent, "wgs84", "nad83", "grs80"}

Metres(def) == Get(def, "units") \in {Absent, "m"} /\ Standard(def, "to_meter")
Unmodified(def) == /\ Get(def, "pm") \in {Absent, "greenwich", "zero"}
              /\ ~Has(def, "axis") /\ ~Has(def, "modifier")

\* Nothing stands beside an +init that could change what its code means.
InitAlone(def) == Keys(def) \subseteq {"init", "no_defs", "wktext", "type"}

\* What a definition that was given transformer t, by its +init code or by a
\* fast path, has to mean.
Means(t, code, def) ==
  IF code # None THEN t.path = "error" \/ (InitAlone(def) /\ t = FromEpsgCode(code))
  ELSE CASE t.path = "wgs84" ->
              \* degrees on a sphere of the standard axis are taken as they are
              /\ Get(def, "proj") \in {"longlat", "latlong"}
              /\ Ellipsoid(def) # "other" /\ ShiftFree(def) /\ Unmodified(def)
         [] t.path = "mercator" ->
              /\ Get(def, "proj") = "merc" /\ Ellipsoid(def) = "sphere" /\ Get(def, "a") = "std"
              /\ ShiftFree(def) /\ Unmodified(def) /\ Metres(def)
              /\ \A key \in {"lon_0", "x_0", "y_0", "lat_ts", "k", "k_0"} : Standard(def, key)
         [] t.path = "albers" ->
              /\ Get(def, "proj") = "aea" /\ Ellipsoid(def) = "std"
              /\ ShiftFree(def) /\ Unmodified(def) /\ Metres(def)
              /\ \A key \in {"lat_1", "lat_2", "lat_0", "lon_0", "x_0", "y_0"} : Get(def, key) # "bad"
         [] OTHER -> TRUE

\* A fast path is the definition: the ellipsoid, the origin and the scale it
\* assumes are the ones the definition gives, and nothing in it is dropped.
FastPathMeans(def) == Means(FromProjString(def), InitCode(def), def)

\* The two ways in which the code drops a parameter: on the Albers path an
\* explicit axis or flattening beside a named ellipsoid or datum, and every
\* parameter beside the code of an +init.
Overridden(def) ==
  \/ /\ Get(def, "proj") = "aea"
     /\ Has(def, "ellps") \/ Has(def, "datum")
     /\ "other" \in Explicit(def)
  \/ InitCode(def) # None /\ ~InitAlone(def)

\* A certificate's scale and false easting are those proj4rs projects with,
\* on a named ellipsoid, with standard axes and a bounded datum shift.
CertificateMeans(def) ==
  LET certificate == Certificate(def)
      k == IF First(def, "k0") # Absent THEN First(def, "k0") ELSE First(def, "k")
  IN  certificate # NoCertificate =>
        /\ First(def, "towgs84") \in {Absent, "zero", "small"} /\ First(def, "axis") = Absent
        /\ First(def, "ellps") # "sphere" /\ First(def, "algo") \in {Absent, "poder_engsager"}
        /\ \A key \in {"a", "b", "rf", "r_a", "approx"} : First(def, key) = Absent
        /\ First(def, "proj") # "utm" =>
             /\ certificate.k0 = IF k = Absent THEN "std" ELSE k
             /\ certificate.x0 = IF First(def, "x_0") = Absent THEN "std" ELSE First(def, "x_0")

=============================================================================
