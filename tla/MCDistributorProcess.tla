------------------------ MODULE MCDistributorProcess ------------------------
(***************************************************************************)
(* Two cities of one country; a request for one of them, one for another   *)
(* country, and one without a selector.                                    *)
(***************************************************************************)
EXTENDS DistributorProcess

MCFields == {"Country", "City"}

Place(country, city) == [f \in MCFields |-> IF f = "Country" THEN country ELSE city]

MCPlaces == {Place("US", "Bellevue"), Place("US", "Austin")}

MCRequests == {"city", "abroad", "anywhere"}

MCSelector == [r \in MCRequests |->
    CASE r = "city" -> Place("US", "Bellevue")
      [] r = "abroad" -> Place("CN", "")
      [] OTHER -> Place("", "")]
=============================================================================
