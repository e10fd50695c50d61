----------------------------- MODULE Statistics -----------------------------
(***************************************************************************)
(* Measurements of each label (statistics.cpp).  The values end up in maps *)
(* of the host: what matters here is which arrays they are read from.      *)
(***************************************************************************)
EXTENDS Tier2

\* One work item accumulates a pixel in the column of its label, from start values that
\* the extremes (rows 8 to 15) do not share with the sums.
_statistics_per_label(m, label, intensity, nb_labels) ==
  Then([made \in {Create(m, <<nb_labels, 16, 1>>, 2, "FLOAT")} |->
  LET table == Ret(made)
      StartRow(n, row) == set_row(n, table)
  IN Then([ready \in {FoldLeft(StartRow, Fill(made, table), [i \in 1..8 |-> 7 + i])} |->
  Return(Launch(ready, Scatter, <<label, intensity>>, <<table>>, Shape(m, label)), table)])])

_std_per_label(m, statistics, label, intensity, nb_labels) ==
  Then([made \in {Create(m, <<nb_labels, 6, 1>>, 2, "FLOAT")} |->
  Return(Launch(Fill(made, Ret(made)), Scatter, <<statistics, label, intensity>>,
                <<Ret(made)>>, Shape(m, label)), Ret(made))])

\* Rows of the n labels: copied out of a table, read (which throws when there is none, for
\* the host vector is empty), and divided by each other into avg.
Row(m, from, to, n) == CopyRegion(m, from, to, <<n, 1, 1>>)
ReadRow(m, p, n) == ReadTo(Require(m, n > 0), p, "FLOAT")
Divided(m, numerator, denominator, avg, n) ==
  ReadRow(divide_images(m, numerator, denominator, avg), avg, n)

\* A sum over the pixels of each label divided by their number or total: a coordinate of
\* the mass center or the centroid, which goes into the rows, or a mean distance.
Averaged(m, table, sum, vector, avg, n) ==
  Divided(ReadRow(Row(m, table, sum, n), sum, n), sum, vector, avg, n)
Center(m, table, sum, vector, avg, rows, n) ==
  paste(Averaged(m, table, sum, vector, avg, n), avg, rows)

Centers(m, table, sum, vector, avg, rows, n) ==
  Then([x \in {Center(m, table, sum, vector, avg, rows, n)} |->
  Then([y \in {Center(x, table, sum, vector, avg, rows, n)} |->
  Center(y, table, sum, vector, avg, rows, n)])])

\* Values of the labels 1 to n only.
compute_statistics_per_labels(m, label, intensity) ==
  LET n == m.host
  IN Then([v \in {Create(maximum_of_all_pixels(m, label), <<n, 1, 1>>, 1, "FLOAT")} |->
  Then([t \in {_statistics_per_label(v, label, intensity, n + 1)} |->
  Then([r \in {Create(t, <<n + 1, 8, 1>>, 2, "FLOAT")} |->
  Then([s \in {CreateAs(r, Ret(v))} |->
  Then([a \in {CreateAs(s, Ret(v))} |->
  LET vector == Ret(v)
      table == Ret(t)
      rows == Ret(r)
      sum == Ret(s)
      avg == Ret(a)
  IN Then([bounds \in {ReadRow(a, table, n)} |->
  Then([area \in {ReadRow(Row(bounds, table, sum, n), sum, n)} |->
  Then([sum_intensity \in {ReadRow(Row(area, table, vector, n), vector, n)} |->
  Then([mean_intensity \in {Divided(paste(sum_intensity, sum, rows), vector, sum, avg, n)} |->
  Then([masses \in {Row(paste(mean_intensity, avg, rows), table, vector, n)} |->
  Then([mass_center \in {Centers(masses, table, sum, vector, avg, rows, n)} |->
  Then([areas \in {Row(mass_center, table, vector, n)} |->
  Then([centroid \in {Centers(areas, table, sum, vector, avg, rows, n)} |->
  Then([complete \in {Launch(centroid, Gather, <<avg, sum>>, <<rows>>, Shape(r, rows))} |->
  Then([spread \in {_std_per_label(complete, rows, label, intensity, n + 1)} |->
  Then([counts \in {Row(spread, table, vector, n)} |->
  Then([to_centroid \in {Averaged(counts, Ret(spread), sum, vector, avg, n)} |->
  Then([distances \in {Averaged(to_centroid, Ret(spread), sum, vector, avg, n)} |->
  Then([deviation \in
          {ReadRow(power(Row(distances, Ret(spread), sum, n), sum, vector), vector, n)} |->
  Return(ReadRow(deviation, Ret(spread), n), Null)])])])])])])])])])])])])])])])])])])])

=============================================================================
