------------------------------ MODULE Aging ------------------------------
(***************************************************************************)
(* AgingCalculator and AgingReport.  Dates are day numbers; a document is  *)
(* a record of its date, due date (NoDate when it has none), amount, which *)
(* may be negative (a credit), and counterparty.                           *)
(***************************************************************************)
EXTENDS MoneyMath

NoDate == -1000
NoCounterparty == ""
Unbounded == -1
AgeBucket(name, min_days, max_days) == [name |-> name, min_days |-> min_days, max_days |-> max_days]

contains(bucket, age) ==
  /\ age >= bucket.min_days
  /\ bucket.max_days # Unbounded => age <= bucket.max_days

STANDARD_BUCKETS ==
  << AgeBucket("Current", 0, 0), AgeBucket("1-30", 1, 30), AgeBucket("31-60", 31, 60),
     AgeBucket("61-90", 61, 90), AgeBucket("Over 90", 91, Unbounded) >>
WEEKLY_BUCKETS ==
  << AgeBucket("Current", 0, 0), AgeBucket("1-7", 1, 7), AgeBucket("8-14", 8, 14),
     AgeBucket("15-21", 15, 21), AgeBucket("22-30", 22, 30), AgeBucket("Over 30", 31, Unbounded) >>

calculate_age(document_date, as_of_date, due_date, use_due_date) ==
  as_of_date - IF use_due_date /\ due_date # NoDate THEN due_date ELSE document_date

\* The first bucket that takes the age; one not yet due goes to the current one.
\* NoBucket stands for the ValueError of an age that fits none.
NoBucket == AgeBucket("none", 0, 0)
FirstBucket(buckets, Fits(_)) ==
  LET fitting == {k \in 1 .. Len(buckets) : Fits(buckets[k])}
  IN IF fitting = {} THEN NoBucket ELSE buckets[CHOOSE k \in fitting : \A j \in fitting : k <= j]
\* Mutant: an item not yet due is filed by the days to go.
classify_unsigned(age, buckets) ==
  FirstBucket(buckets, LAMBDA b : contains(b, AbsOf(age)))

classify(age, buckets) ==
  IF age < 0
  THEN LET current == FirstBucket(buckets, LAMBDA b : b.min_days = 0)
       IN IF current = NoBucket THEN buckets[1] ELSE current
  ELSE FirstBucket(buckets, LAMBDA b : contains(b, age))

age_item(doc, as_of_date, buckets, use_due_date) ==
  LET age == calculate_age(doc.document_date, as_of_date, doc.due_date, use_due_date)
  IN [doc |-> doc, age_days |-> age, bucket |-> classify(age, buckets).name]
is_overdue(item) == item.doc.due_date # NoDate /\ item.age_days > 0

generate_report(items, as_of_date, buckets) ==
  [as_of_date |-> as_of_date, buckets |-> buckets, items |-> items]
generate_report_from_documents(documents, as_of_date, buckets, use_due_date) ==
  generate_report([i \in 1 .. Len(documents) |-> age_item(documents[i], as_of_date, buckets, use_due_date)],
                  as_of_date, buckets)

\* Totals of a report, over all of its items or over some of them, given by index.
Items(report) == 1 .. Len(report.items)
AmountOf(report, chosen) ==
  SumOfSeq([i \in Items(report) |-> IF i \in chosen THEN report.items[i].doc.amount ELSE 0])
BucketNames(report) == {report.buckets[k].name : k \in 1 .. Len(report.buckets)}
total_amount(report) == AmountOf(report, Items(report))
items_in_bucket(report, name) == {i \in Items(report) : report.items[i].bucket = name}
total_by_bucket(report) ==
  IF report.items = <<>> THEN <<>>
  ELSE [name \in BucketNames(report) |-> AmountOf(report, items_in_bucket(report, name))]
items_for_counterparty(report, cp) == {i \in Items(report) : report.items[i].doc.counterparty = cp}
total_by_counterparty(report) ==
  [cp \in {report.items[i].doc.counterparty : i \in Items(report)} \ {NoCounterparty} |->
     [name \in BucketNames(report) |->
        AmountOf(report, items_for_counterparty(report, cp) \cap items_in_bucket(report, name))]]
overdue_items(report) == {i \in Items(report) : is_overdue(report.items[i])}
overdue_amount(report) == AmountOf(report, overdue_items(report))
=============================================================================
